---- MODULE Spec2Model ----
(***************************************************************************)
(* gowitness: the IP intelligence resolver (web/api IPInfoHandler, the     *)
(* `scan shodan` command) and the domain / IP aggregation of the           *)
(* statistics endpoint, modelled from the Go sources.                      *)
(*                                                                         *)
(* Strings that the code inspects character by character are sequences of  *)
(* character codes (timestamps, JSON text); URLs are sequences of lexical  *)
(* tokens; dotted IP strings are sequences of their dot-separated fields.  *)
(***************************************************************************)
EXTENDS Integers, Sequences, FiniteSets, TLC

(***************************************************************************)
(* Bounds of the model.                                                    *)
(***************************************************************************)
\* concurrent IPInfoHandler requests
NumRequests == 2

(***************************************************************************)
(* Strings.                                                                *)
(***************************************************************************)
EmptyString == <<>>

\* a dot-separated field of an IP string that is not a decimal number
NotDecimal == 0 - 1

\* "10.0.0.1", "10.0.0.2", "not-an-ip"
IPA == <<10, 0, 0, 1>>
IPB == <<10, 0, 0, 2>>
NotAnIP == <<NotDecimal>>

RequestIPs == {IPA, NotAnIP}

\* the prefix "::ffff:" of the IPv4-mapped IPv6 text of an address
MappedPrefix == 0 - 2

\* "::ffff:10.0.0.1": the same address as "10.0.0.1" in another spelling
IPAMapped == <<MappedPrefix>> \o IPA

\* "example.com" (a host name: two fields that are not decimal numbers)
NameExampleCom == <<NotDecimal, NotDecimal>>

NilIP == <<>>

IsDottedQuad(text) ==
    /\ Len(text) = 4
    /\ \A i \in 1..4 : text[i] >= 0 /\ text[i] <= 255

\* net.ParseIP: the address a text spells (its four bytes), nil if it spells
\* none; a dotted quad and its IPv4-mapped spelling give the same address
ParseIP(text) ==
    IF IsDottedQuad(text) THEN text
    ELSE IF Len(text) = 5 /\ text[1] = MappedPrefix /\ IsDottedQuad(Tail(text)) THEN Tail(text)
    ELSE NilIP

\* net.IP.String: the canonical text of an address
IPString(ip) == ip

\* a check that lets every string pass
isValidIPAddressAlways(ip) == TRUE

\* logo.go isValidIPAddress: net.ParseIP(ip) != nil
isValidIPAddress(ip) == ParseIP(ip) # NilIP

\* strconv / encoding/json rendering of a non-negative int: its decimal digits
RECURSIVE Itoa(_)
Itoa(n) == IF n < 10 THEN <<48 + n>> ELSE Itoa(n \div 10) \o <<48 + (n % 10)>>

RECURSIVE JoinInts(_)
JoinInts(ports) ==
    IF Len(ports) = 0 THEN <<>>
    ELSE IF Len(ports) = 1 THEN Itoa(ports[1])
    ELSE Itoa(ports[1]) \o <<44>> \o JoinInts(Tail(ports))

\* json.Marshal of an []int: "[80,443]"
MarshalInts(ports) == <<91>> \o JoinInts(ports) \o <<93>>

\* (*IPInfo).SetPorts: the value stored in the ports column
SetPorts(ports, isNil) == IF isNil THEN EmptyString ELSE MarshalInts(ports)

\* json.Unmarshal of the text of an []int: digits build a number, "," and "]"
\* end it
RECURSIVE UnmarshalIntsFrom(_, _, _, _, _)
UnmarshalIntsFrom(text, i, cur, inNumber, acc) ==
    IF i > Len(text) THEN acc
    ELSE IF text[i] >= 48 /\ text[i] <= 57
         THEN UnmarshalIntsFrom(text, i + 1, cur * 10 + (text[i] - 48), TRUE, acc)
         ELSE UnmarshalIntsFrom(text, i + 1, 0, FALSE,
                                IF inNumber THEN Append(acc, cur) ELSE acc)

\* (*IPInfo).GetPorts: the ports read back from the ports column
GetPorts(portsText) ==
    IF portsText = EmptyString THEN <<>> ELSE UnmarshalIntsFrom(portsText, 1, 0, FALSE, <<>>)

(***************************************************************************)
(* Replies of the external providers.                                      *)
(***************************************************************************)
NilIPAPI == [Status |-> "nil", Org |-> "", ISP |-> "", Country |-> ""]

IPAPIReplies ==
    { [Status |-> "success", Org |-> "Example Org", ISP |-> "Example ISP", Country |-> "Denmark"],
      [Status |-> "success", Org |-> "", ISP |-> "", Country |-> ""],
      [Status |-> "fail", Org |-> "", ISP |-> "", Country |-> ""] }

\* what fetchIPAPIData returns for a reply: nil (with an error) on status "fail"
fetchIPAPIDataResult(reply) == IF reply.Status = "fail" THEN NilIPAPI ELSE reply

NaabuReplies ==
    { [err |-> TRUE, ports |-> <<>>],
      [err |-> FALSE, ports |-> <<>>],
      [err |-> FALSE, ports |-> <<80>>] }

ShodanReplies ==
    { [err |-> TRUE, Organization |-> "", ISP |-> "", Country |-> "", Ports |-> <<>>],
      [err |-> FALSE, Organization |-> "Shodan Org", ISP |-> "Shodan ISP",
       Country |-> "Denmark", Ports |-> <<80>>] }

(***************************************************************************)
(* The store: the ip_infos and ip_ports tables.                            *)
(***************************************************************************)
VARIABLES ipInfos, ipPorts, req, scan, results, domainStats, ipStats, naabuImport,
          sessions, statsResp, codec, workflow, registry, web

vars == <<ipInfos, ipPorts, req, scan, results, domainStats, ipStats, naabuImport,
          sessions, statsResp, codec, workflow, registry, web>>

\* the state of the resolver and the state of the statistics endpoint
resolverVars == <<ipInfos, ipPorts, req, scan>>

aggVars == <<results, domainStats, ipStats>>

\* the state of a naabu import and the state of the statistics handler
importVars == <<naabuImport>>

statsVars == <<sessions, statsResp>>

\* the list codec of the IPInfo model, the `scan run` workflow, the registry
\* config file and the web server's authentication
extraVars == <<codec, workflow, registry, web>>

ZeroIPInfo ==
    [ID |-> 0, IPAddress |-> EmptyString, Organization |-> "", ISP |-> "",
     Country |-> "", Ports |-> EmptyString]

RowsFor(table, ip) == {row \in table : row.IPAddress = ip}

\* gorm First: the matching row with the lowest primary key
FirstRow(rows) == CHOOSE row \in rows : \A other \in rows : row.ID <= other.ID

\* the uniqueIndex on ip_infos.ip_address rejects a second row for an address
UniqueViolationOff(table, ip) == FALSE

UniqueViolation(table, ip) == RowsFor(table, ip) # {}

\* autoincrement primary key
NextID(table) == Cardinality(table) + 1

\* a test that takes every stored record as filled
IsBlankNever(row) == FALSE

\* logo.go 405-410: organization, ISP and country are all empty
IsBlank(row) == row.Organization = "" /\ row.ISP = "" /\ row.Country = ""

(***************************************************************************)
(* One IPInfoHandler request (GET /ip/{ip}).  A step of a request is one   *)
(* query of the store together with the provider calls and the local       *)
(* computation that follow it up to the next query: requests and the scan  *)
(* interleave at every store access.                                       *)
(***************************************************************************)
Requests == 1..NumRequests

IdleRequest ==
    [pc |-> "idle", ip |-> EmptyString, ipInfo |-> ZeroIPInfo, needsFallback |-> FALSE,
     ipApiData |-> NilIPAPI, ports |-> <<>>, createFailed |-> FALSE, storeErr |-> FALSE,
     openPorts |-> {}, hasShodanInfo |-> FALSE, shodanInfo |-> ZeroIPInfo,
     geoCalls |-> 0, probeCalls |-> 0, writes |-> 0, after |-> {}]

\* logo.go 308-391: the request arrives; open ports and domains are read
\* (requests are numbered in the order in which they arrive)
IPInfoHandler(r) ==
    /\ req[r].pc = "idle"
    /\ \A o \in Requests : o < r => req[o].pc # "idle"
    /\ \E ip \in RequestIPs :
         req' = [req EXCEPT ![r] =
                    [@ EXCEPT !.pc = "lookup", !.ip = ip,
                              !.openPorts = {p.Port : p \in {q \in ipPorts : q.IPAddress = ip}},
                              !.after = {o \in Requests : req[o].pc = "done"}]]
    /\ UNCHANGED <<ipInfos, ipPorts, scan, aggVars, importVars, statsVars, extraVars>>

\* logo.go 452-499: shodan_info is set iff the local record has an address
\* (the locals of the handler end with it)
Respond(rec) ==
    [rec EXCEPT !.hasShodanInfo = (rec.ipInfo.IPAddress # EmptyString),
                !.shodanInfo = rec.ipInfo,
                !.ipInfo = ZeroIPInfo, !.ports = <<>>,
                !.pc = "done"]

\* logo.go 397-410: the stored record decides whether the fallback is needed
NeedsFallbackAlways(found, ipInfo) == TRUE

NeedsFallback(found, ipInfo) == ~found \/ IsBlank(ipInfo)

\* logo.go 394-424: look the stored record up; if the fallback is needed and the
\* address is valid, call the geolocation provider (fetchIPAPIData, 184-209)
LookupIPInfo(r) ==
    /\ req[r].pc = "lookup"
    /\ LET rows == RowsFor(ipInfos, req[r].ip)
           found == rows # {}
           ipInfo == IF found THEN FirstRow(rows) ELSE ZeroIPInfo
           needsFallback == NeedsFallback(found, ipInfo)
           looked == [req[r] EXCEPT !.ipInfo = ipInfo, !.needsFallback = needsFallback]
       IN IF needsFallback /\ isValidIPAddress(req[r].ip)
          THEN \E reply \in IPAPIReplies :
                 req' = [req EXCEPT ![r] =
                            [looked EXCEPT !.ipApiData = fetchIPAPIDataResult(reply),
                                           !.geoCalls = @ + 1, !.pc = "ports"]]
          ELSE req' = [req EXCEPT ![r] = Respond(looked)]
    /\ UNCHANGED <<ipInfos, ipPorts, scan, aggVars, importVars, statsVars, extraVars>>

\* logo.go 438-439: the record is stored only if geolocation answered;
\* otherwise the handler goes on to its response with what it holds
AfterProbe(rec) ==
    IF rec.ipApiData # NilIPAPI THEN [rec EXCEPT !.pc = "check"]
    ELSE [rec EXCEPT !.pc = "respond"]

\* a handler that probes whatever the store holds
ShouldProbeAlways(existingPorts) == TRUE

\* logo.go 429: the probe runs only if the store has no port of the address
ShouldProbe(existingPorts) == existingPorts = {}

\* logo.go 426-436: the probe (runNaabuScan, 212-246) runs only if the store has
\* no port of the address
ExistingPorts(r) ==
    /\ req[r].pc = "ports"
    /\ LET existingPorts == {q \in ipPorts : q.IPAddress = req[r].ip}
       IN IF ShouldProbe(existingPorts)
          THEN \E reply \in NaabuReplies :
                 req' = [req EXCEPT ![r] =
                            AfterProbe([req[r] EXCEPT
                                          !.ports = IF reply.err THEN <<>> ELSE reply.ports,
                                          !.probeCalls = @ + 1])]
          ELSE req' = [req EXCEPT ![r] = AfterProbe(req[r])]
    /\ UNCHANGED <<ipInfos, ipPorts, scan, aggVars, importVars, statsVars, extraVars>>

\* logo.go 452-499: the response of a fallback in which geolocation failed
RespondWithoutStore(r) ==
    /\ req[r].pc = "respond"
    /\ req' = [req EXCEPT ![r] = Respond(@)]
    /\ UNCHANGED <<ipInfos, ipPorts, scan, aggVars, importVars, statsVars, extraVars>>

\* logo.go 254-263: storeFallbackIPData's existence check
storeFallbackIPDataCheck(r) ==
    /\ req[r].pc = "check"
    /\ req' = [req EXCEPT ![r] =
                  [@ EXCEPT !.pc = IF RowsFor(ipInfos, req[r].ip) # {} THEN "refetch"
                                   ELSE "create"]]
    /\ UNCHANGED <<ipInfos, ipPorts, scan, aggVars, importVars, statsVars, extraVars>>

\* logo.go 266-287: the record built from the geolocation reply and the probe
FallbackIPInfo(id, ip, ipApiData, ports) ==
    [ID |-> id, IPAddress |-> ip, Organization |-> ipApiData.Org, ISP |-> ipApiData.ISP,
     Country |-> ipApiData.Country,
     Ports |-> IF Len(ports) > 0 THEN SetPorts(ports, FALSE) ELSE EmptyString]

\* logo.go 289-295 and 440-442: the insert; a failed insert is returned as an
\* error and the handler answers without re-fetching
storeFallbackIPDataCreate(r) ==
    /\ req[r].pc = "create"
    /\ IF UniqueViolation(ipInfos, req[r].ip)
       THEN /\ req' = [req EXCEPT ![r] = Respond([@ EXCEPT !.createFailed = TRUE, !.storeErr = TRUE])]
            /\ UNCHANGED ipInfos
       ELSE /\ ipInfos' = ipInfos \cup
                    {FallbackIPInfo(NextID(ipInfos), req[r].ip, req[r].ipApiData, req[r].ports)}
            /\ req' = [req EXCEPT ![r] = [@ EXCEPT !.writes = @ + 1, !.pc = "refetch"]]
    /\ UNCHANGED <<ipPorts, scan, aggVars, importVars, statsVars, extraVars>>

\* logo.go 443-446: re-fetch after storeFallbackIPData returned nil, then answer
RefetchIPInfo(r) ==
    /\ req[r].pc = "refetch"
    /\ LET rows == RowsFor(ipInfos, req[r].ip)
       IN req' = [req EXCEPT ![r] =
                     Respond([@ EXCEPT !.ipInfo = IF rows # {} THEN FirstRow(rows) ELSE @])]
    /\ UNCHANGED <<ipInfos, ipPorts, scan, aggVars, importVars, statsVars, extraVars>>

(***************************************************************************)
(* One run of `scan shodan` (cmd: runShodanScan), a process of its own     *)
(* against the same store.                                                 *)
(***************************************************************************)
\* the hosts file of the run: here the address the requests ask about
ScanHostLists == {<<IPA>>}

\* the orders in which Go may iterate over the keys of a map
RECURSIVE Orders(_)
Orders(S) ==
    IF S = {} THEN {<<>>}
    ELSE UNION {{<<x>> \o o : o \in Orders(S \ {x})} : x \in S}

\* net.LookupIP: the addresses a host name resolves to (none: the lookup fails)
LookupIP(host) == IF host = NameExampleCom THEN {IPA} ELSE {}

\* part_005 453-495, the keys one host adds to ipSet: the text of the line
\* itself if it spells an address, else the text of each address it resolves to
IPSetKeys(host) ==
    IF ParseIP(host) # NilIP THEN {host}
    ELSE {IPString(ip) : ip \in LookupIP(host)}

\* part_005 453-495: the keys of ipSet
IPSet(hosts) == UNION {IPSetKeys(hosts[i]) : i \in 1..Len(hosts)}

\* part_005 488-494: the list is built by ranging over the map
resolveAndDeduplicateIPs(hosts) == Orders(IPSet(hosts))

\* queried: the addresses GetHostMinimal was called for; fallbacks: those
\* createFallbackIPInfo was called for (in the order of the calls); shodanOK:
\* the Shodan query of the iteration gave a host
IdleScan ==
    [pc |-> "idle", client |-> FALSE, hosts |-> <<>>, ips |-> <<>>, idx |-> 1,
     ipInfo |-> ZeroIPInfo, ports |-> <<>>, pidx |-> 1, usedFallback |-> FALSE,
     shodanOK |-> FALSE, queried |-> <<>>, fallbacks |-> <<>>]

\* part_005 283-316: client initialisation (may fail); the hosts of the file are
\* resolved and deduplicated
runShodanScan ==
    /\ scan.pc = "idle"
    /\ \E client \in BOOLEAN, ips \in resolveAndDeduplicateIPs(scan.hosts) :
         scan' = [scan EXCEPT !.pc = "loop", !.client = client, !.ips = ips]
    /\ UNCHANGED <<ipInfos, ipPorts, req, aggVars, importVars, statsVars, extraVars>>

\* the port loop ends when every port was looked at (part_005 256, 500)
AfterPort(pidx, ports) == IF pidx > Len(ports) THEN "save" ELSE "portcheck"

\* part_005 352-385: the record built from a Shodan host
ShodanIPInfo(ip, host) ==
    [ID |-> 0, IPAddress |-> ip, Organization |-> host.Organization, ISP |-> host.ISP,
     Country |-> host.Country, Ports |-> SetPorts(host.Ports, FALSE)]

\* part_005 344-391: the Shodan query succeeded
ScanFromShodan(host) ==
    [scan EXCEPT !.ipInfo = ShodanIPInfo(host.IP, host),
                 !.usedFallback = FALSE, !.ports = host.Ports, !.pidx = 1,
                 !.pc = AfterPort(1, host.Ports)]

\* the next address of the loop; the locals of the iteration end with it
NextIP == [scan EXCEPT !.idx = @ + 1, !.pc = "loop", !.ipInfo = ZeroIPInfo,
                       !.ports = <<>>, !.pidx = 1, !.usedFallback = FALSE,
                       !.shodanOK = FALSE]

\* part_005 199-250 and 394-403: createFallbackIPInfo; a geolocation failure
\* skips the address
ScanFromFallback(geo, naabu) ==
    LET ipApiData == fetchIPAPIDataResult(geo)
        ports == IF naabu.err THEN <<>> ELSE naabu.ports
    IN IF ipApiData = NilIPAPI
       THEN NextIP
       ELSE [scan EXCEPT !.ipInfo = FallbackIPInfo(0, scan.ips[scan.idx], ipApiData, ports),
                         !.usedFallback = TRUE, !.ports = ports, !.pidx = 1,
                         !.pc = AfterPort(1, ports)]

\* the log of the provider calls of one iteration, and the outcome of its
\* Shodan query while the iteration goes on
Called(rec, ip, shodan, fallback, ok) ==
    [rec EXCEPT !.queried = IF shodan THEN Append(@, ip) ELSE @,
                !.fallbacks = IF fallback THEN Append(@, ip) ELSE @,
                !.shodanOK = IF rec.pc = "loop" THEN FALSE ELSE ok]

\* a loop that runs the fallback for every address
NeedsScanFallbackAlways(client, reply) == TRUE

\* part_005 345-350 and 394: ipInfo is still nil after the Shodan block if
\* there is no client or the query failed
NeedsScanFallback(client, reply) == ~client \/ reply.err

\* part_009 59-84: the host Shodan describes carries the address in Shodan's own
\* (canonical) spelling
GetHostMinimal(ip, reply) ==
    [err |-> reply.err, IP |-> IPString(ParseIP(ip)), Organization |-> reply.Organization,
     ISP |-> reply.ISP, Country |-> reply.Country, Ports |-> reply.Ports]

\* part_005 318-403: loop head, the existence check that skips a known address,
\* then Shodan first (if a client exists) and the fallback if it gave nothing
ScanCheckExisting ==
    /\ scan.pc = "loop"
    /\ IF scan.idx > Len(scan.ips)
       THEN scan' = [scan EXCEPT !.pc = "done"]
       ELSE IF RowsFor(ipInfos, scan.ips[scan.idx]) # {}
            THEN scan' = NextIP
            ELSE \E reply \in ShodanReplies, geo \in IPAPIReplies, naabu \in NaabuReplies :
                   scan' = IF NeedsScanFallback(scan.client, reply)
                           THEN Called(ScanFromFallback(geo, naabu), scan.ips[scan.idx],
                                       scan.client, TRUE, scan.client /\ ~reply.err)
                           ELSE Called(ScanFromShodan(GetHostMinimal(scan.ips[scan.idx], reply)),
                                       scan.ips[scan.idx], TRUE, FALSE, TRUE)
    /\ UNCHANGED <<ipInfos, ipPorts, req, aggVars, importVars, statsVars, extraVars>>

PortRowsFor(table, ip, port) == {q \in table : q.IPAddress = ip /\ q.Port = port}

\* part_005 256-260 and 500-504: existence check of one (address, port) pair
ScanPortCheck ==
    /\ scan.pc = "portcheck"
    /\ IF PortRowsFor(ipPorts, scan.ipInfo.IPAddress, scan.ports[scan.pidx]) # {}
       THEN scan' = [scan EXCEPT !.pidx = @ + 1, !.pc = AfterPort(scan.pidx + 1, scan.ports)]
       ELSE scan' = [scan EXCEPT !.pc = "portcreate"]
    /\ UNCHANGED <<ipInfos, ipPorts, req, aggVars, importVars, statsVars, extraVars>>

\* part_005 261-275 and 505-519: the insert of the port record
ScanPortCreate ==
    /\ scan.pc = "portcreate"
    /\ ipPorts' = ipPorts \cup
           {[ID |-> NextID(ipPorts), IPAddress |-> scan.ipInfo.IPAddress,
             Port |-> scan.ports[scan.pidx], Protocol |-> "tcp", State |-> "open"]}
    /\ scan' = [scan EXCEPT !.pidx = @ + 1, !.pc = AfterPort(scan.pidx + 1, scan.ports)]
    /\ UNCHANGED <<ipInfos, req, aggVars, importVars, statsVars, extraVars>>

\* part_005 406-413: the insert of the record; a failed insert is counted and skipped
ScanSave ==
    /\ scan.pc = "save"
    /\ IF UniqueViolation(ipInfos, scan.ipInfo.IPAddress)
       THEN /\ scan' = NextIP
            /\ UNCHANGED ipInfos
       ELSE /\ ipInfos' = ipInfos \cup {[scan.ipInfo EXCEPT !.ID = NextID(ipInfos)]}
            /\ scan' = NextIP
    /\ UNCHANGED <<ipPorts, req, aggVars, importVars, statsVars, extraVars>>

(***************************************************************************)
(* One import of a naabu result file (cmd `scan naabu`: parseAndSaveResults), *)
(* a process of its own against the same store.                            *)
(***************************************************************************)
\* the result files of a naabu run: one line per open port found
NaabuFiles ==
    { <<[IP |-> IPA, Port |-> 80]>>,
      <<[IP |-> IPA, Port |-> 80], [IP |-> IPA, Port |-> 80]>>,
      <<[IP |-> IPA, Port |-> 443], [IP |-> IPA, Port |-> 80]>> }

IdleImport == [pc |-> "idle", lines |-> <<>>, idx |-> 1]

\* the line loop ends when every line was looked at
AfterLine(idx, lines) == IF idx > Len(lines) THEN "done" ELSE "check"

\* part_004 176-195: the result file is opened and read line by line
parseAndSaveResults ==
    /\ naabuImport.pc = "idle"
    /\ \E lines \in NaabuFiles :
         naabuImport' = [naabuImport EXCEPT !.pc = "check", !.lines = lines, !.idx = 1]
    /\ UNCHANGED <<resolverVars, aggVars, statsVars, extraVars>>

\* part_004 211-234: existence check of the (address, port) pair of a line
ImportPortCheck ==
    /\ naabuImport.pc = "check"
    /\ IF PortRowsFor(ipPorts, naabuImport.lines[naabuImport.idx].IP, naabuImport.lines[naabuImport.idx].Port) # {}
       THEN naabuImport' = [naabuImport EXCEPT !.idx = @ + 1, !.pc = AfterLine(naabuImport.idx + 1, naabuImport.lines)]
       ELSE naabuImport' = [naabuImport EXCEPT !.pc = "create"]
    /\ UNCHANGED <<resolverVars, aggVars, statsVars, extraVars>>

\* part_004 199-221: the insert of the port record
ImportPortCreate ==
    /\ naabuImport.pc = "create"
    /\ ipPorts' = ipPorts \cup
           {[ID |-> NextID(ipPorts), IPAddress |-> naabuImport.lines[naabuImport.idx].IP,
             Port |-> naabuImport.lines[naabuImport.idx].Port, Protocol |-> "tcp", State |-> "open"]}
    /\ naabuImport' = [naabuImport EXCEPT !.idx = @ + 1, !.pc = AfterLine(naabuImport.idx + 1, naabuImport.lines)]
    /\ UNCHANGED <<ipInfos, req, scan, aggVars, statsVars, extraVars>>

(***************************************************************************)
(* URLs.  A URL string is the sequence of its lexical tokens: words of     *)
(* letters, words of digits, and the separators "." ":" "/" " ".           *)
(***************************************************************************)
AlphaWords == {"http", "https", "ftp", "www", "sub", "example", "co", "uk", "com",
               "localhost", "not", "a", "url"}

DigitWords == {"0", "1", "10", "168", "192", "8443"}

\* "https://www.example.co.uk"
URLWwwExampleCoUk == <<"https", ":", "/", "/", "www", ".", "example", ".", "co", ".", "uk">>
\* "http://example.co.uk"
URLExampleCoUk == <<"http", ":", "/", "/", "example", ".", "co", ".", "uk">>
\* "https://sub.example.com:8443"
URLSubExampleCom == <<"https", ":", "/", "/", "sub", ".", "example", ".", "com", ":", "8443">>
\* "http://localhost"
URLLocalhost == <<"http", ":", "/", "/", "localhost">>
\* "http://10.0.1.1"
URLTen == <<"http", ":", "/", "/", "10", ".", "0", ".", "1", ".", "1">>
\* "http://192.168.1.1"
URLPrivate == <<"http", ":", "/", "/", "192", ".", "168", ".", "1", ".", "1">>
\* "::::not a url"
URLMalformed == <<":", ":", ":", ":", "not", " ", "a", " ", "url">>
\* "example.com" (no scheme: the text is a path, the host is empty)
URLNoScheme == <<"example", ".", "com">>
\* "ftp://example.com"
URLFtp == <<"ftp", ":", "/", "/", "example", ".", "com">>
\* "http://co.uk" (the host is itself a public suffix)
URLCoUk == <<"http", ":", "/", "/", "co", ".", "uk">>

URLs == {URLWwwExampleCoUk, URLExampleCoUk, URLSubExampleCom, URLLocalhost,
         URLTen, URLPrivate, URLMalformed, URLNoScheme, URLFtp, URLCoUk}

\* strings.Index / strings.LastIndex of a separator, 0 if absent
RECURSIVE IndexFrom(_, _, _)
IndexFrom(s, tok, i) ==
    IF i > Len(s) THEN 0 ELSE IF s[i] = tok THEN i ELSE IndexFrom(s, tok, i + 1)

Index(s, tok) == IndexFrom(s, tok, 1)

RECURSIVE LastIndexFrom(_, _, _)
LastIndexFrom(s, tok, i) ==
    IF i < 1 THEN 0 ELSE IF s[i] = tok THEN i ELSE LastIndexFrom(s, tok, i - 1)

LastIndex(s, tok) == LastIndexFrom(s, tok, Len(s))

\* net/url getScheme: the position of the ":" that ends the scheme, 0 if the
\* text has no scheme, -1 for the error "missing protocol scheme"
RECURSIVE SchemeEnd(_, _)
SchemeEnd(u, i) ==
    IF i > Len(u) THEN 0
    ELSE IF u[i] \in AlphaWords THEN SchemeEnd(u, i + 1)
    ELSE IF u[i] \in DigitWords \cup {"."} THEN (IF i = 1 THEN 0 ELSE SchemeEnd(u, i + 1))
    ELSE IF u[i] = ":" THEN (IF i = 1 THEN 0 - 1 ELSE i)
    ELSE 0

ParseError == [err |-> TRUE, Scheme |-> <<>>, Host |-> <<>>]

\* net/url parseHost: a port after the last ":" must be digits, and the host
\* holds no space
ValidHost(host) ==
    /\ LET c == LastIndex(host, ":")
       IN c # 0 => \A i \in (c + 1)..Len(host) : host[i] \in DigitWords
    /\ Index(host, " ") = 0

\* net/url Parse: scheme, then "//" authority up to the next "/"
UrlParse(u) ==
    LET e == SchemeEnd(u, 1)
        scheme == IF e > 0 THEN SubSeq(u, 1, e - 1) ELSE <<>>
        rest == IF e > 0 THEN SubSeq(u, e + 1, Len(u)) ELSE u
        slash == Len(rest) >= 1 /\ rest[1] = "/"
        segment == IF Index(rest, "/") = 0 THEN rest ELSE SubSeq(rest, 1, Index(rest, "/") - 1)
        afterSlashes == SubSeq(rest, 3, Len(rest))
        authority == IF Index(afterSlashes, "/") = 0 THEN afterSlashes
                     ELSE SubSeq(afterSlashes, 1, Index(afterSlashes, "/") - 1)
    IN IF e < 0 THEN ParseError
       ELSE IF ~slash
            THEN IF scheme = <<>> /\ Index(segment, ":") # 0 THEN ParseError
                 ELSE [err |-> FALSE, Scheme |-> scheme, Host |-> <<>>]
            ELSE IF Len(rest) >= 2 /\ rest[2] = "/"
                    /\ (scheme # <<>> \/ ~(Len(rest) >= 3 /\ rest[3] = "/"))
                 THEN IF ValidHost(authority)
                      THEN [err |-> FALSE, Scheme |-> scheme, Host |-> authority]
                      ELSE ParseError
                 ELSE [err |-> FALSE, Scheme |-> scheme, Host |-> <<>>]

\* url.Parse of each URL of the model, evaluated once
ParsedURLs == [u \in URLs |-> UrlParse(u)]

\* (*URL).Hostname: the host without its port
Hostname(parsedURL) ==
    LET c == Index(parsedURL.Host, ":")
    IN IF c = 0 THEN parsedURL.Host ELSE SubSeq(parsedURL.Host, 1, c - 1)

\* (*URL).Port: the digits after the ":", "" if there is none
Port(parsedURL) ==
    LET c == Index(parsedURL.Host, ":")
    IN IF c = 0 THEN <<>> ELSE SubSeq(parsedURL.Host, c + 1, Len(parsedURL.Host))

(***************************************************************************)
(* The public suffix list and extractApexDomain.                           *)
(***************************************************************************)
\* strings.Split(hostname, "."): the labels, an empty label as ""
RECURSIVE SplitFrom(_, _, _, _)
SplitFrom(h, i, cur, acc) ==
    IF i > Len(h) THEN Append(acc, cur)
    ELSE IF h[i] = "." THEN SplitFrom(h, i + 1, "", Append(acc, cur))
    ELSE SplitFrom(h, i + 1, h[i], acc)

Split(h) == SplitFrom(h, 1, "", <<>>)

\* strings.Join(labels, ".")
RECURSIVE Join(_)
Join(labels) ==
    IF Len(labels) = 0 THEN <<>>
    ELSE IF Len(labels) = 1 THEN (IF labels[1] = "" THEN <<>> ELSE <<labels[1]>>)
    ELSE (IF labels[1] = "" THEN <<>> ELSE <<labels[1]>>) \o <<".">> \o Join(Tail(labels))

LastLabels(labels, k) == SubSeq(labels, Len(labels) - k + 1, Len(labels))

\* the rules of the public suffix list the hosts of the model meet
SuffixRules == {<<"com">>, <<"uk">>, <<"co", "uk">>}

\* publicsuffix.PublicSuffix: the number of labels of the longest rule matched
\* from the right; if no rule matches, the prevailing rule is "*": one label
RECURSIVE MatchedLabels(_, _)
MatchedLabels(labels, k) ==
    IF k < Len(labels) /\ LastLabels(labels, k + 1) \in SuffixRules
    THEN MatchedLabels(labels, k + 1)
    ELSE k

PublicSuffixLabels(labels) ==
    IF LastLabels(labels, 1) \in SuffixRules THEN MatchedLabels(labels, 1) ELSE 1

\* a lookup that always fails
EffectiveTLDPlusOneFails(hostname) == [err |-> TRUE, etld |-> <<>>]

\* publicsuffix.EffectiveTLDPlusOne: an error for an empty label or for a
\* domain that is itself a suffix, else the suffix and one more label
EffectiveTLDPlusOne(hostname) ==
    LET labels == Split(hostname)
        k == PublicSuffixLabels(labels)
    IN IF \E i \in 1..Len(labels) : labels[i] = "" THEN [err |-> TRUE, etld |-> <<>>]
       ELSE IF Len(labels) <= k THEN [err |-> TRUE, etld |-> <<>>]
       ELSE [err |-> FALSE, etld |-> Join(LastLabels(labels, k + 1))]

\* statistics.go 89-113
extractApexDomain(inputURL) ==
    LET parsedURL == ParsedURLs[inputURL]
        hostname == Hostname(parsedURL)
        etld == EffectiveTLDPlusOne(hostname)
        parts == Split(hostname)
    IN IF parsedURL.err THEN <<>>
       ELSE IF hostname = <<>> THEN <<>>
       ELSE IF etld.err
            THEN IF Len(parts) >= 2 THEN Join(LastLabels(parts, 2)) ELSE hostname
            ELSE etld.etld

\* extractApexDomain of each URL of the model, evaluated once
ApexDomains == [u \in URLs |-> extractApexDomain(u)]

(***************************************************************************)
(* Observation times and their rendering.                                  *)
(***************************************************************************)
\* 2024-01-01 09:00:00, 2024-01-02 10:00:00, 2024-01-03 11:00:00
TimeA == [year |-> 2024, month |-> 1, day |-> 1, hour |-> 9, minute |-> 0, second |-> 0]
TimeB == [year |-> 2024, month |-> 1, day |-> 2, hour |-> 10, minute |-> 0, second |-> 0]
TimeC == [year |-> 2024, month |-> 1, day |-> 3, hour |-> 11, minute |-> 0, second |-> 0]

Times == {TimeA, TimeB, TimeC}

\* the fields of a time, most significant first
TimeKey(t) == <<t.year, t.month, t.day, t.hour, t.minute, t.second>>

\* time.Time.Before
RECURSIVE KeyBefore(_, _, _)
KeyBefore(a, b, i) ==
    IF i > Len(a) THEN FALSE
    ELSE IF a[i] # b[i] THEN a[i] < b[i]
    ELSE KeyBefore(a, b, i + 1)

Before(t1, t2) == KeyBefore(TimeKey(t1), TimeKey(t2), 1)

\* n in decimal, padded with zeros to the given width
RECURSIVE Pad(_, _)
Pad(n, width) ==
    IF width = 0 THEN <<>> ELSE Pad(n \div 10, width - 1) \o <<48 + (n % 10)>>

\* time.Time.Format("2006-01-02 15:04:05") as character codes
FormatTime(t) ==
    Pad(t.year, 4) \o <<45>> \o Pad(t.month, 2) \o <<45>> \o Pad(t.day, 2) \o <<32>>
    \o Pad(t.hour, 2) \o <<58>> \o Pad(t.minute, 2) \o <<58>> \o Pad(t.second, 2)

\* Go's < on strings: byte-wise lexicographic order
RECURSIVE StrLessFrom(_, _, _)
StrLessFrom(a, b, i) ==
    IF i > Len(a) THEN i <= Len(b)
    ELSE IF i > Len(b) THEN FALSE
    ELSE IF a[i] # b[i] THEN a[i] < b[i]
    ELSE StrLessFrom(a, b, i + 1)

StrLess(a, b) == StrLessFrom(a, b, 1)

(***************************************************************************)
(* The results table and the two aggregators of the statistics endpoint.   *)
(***************************************************************************)
\* rows of the results table a statistics pass reads
MaxResults == 3

\* scan sessions in the store
MaxSessions == 2

NoStats == [computed |-> FALSE]

\* a port that is always the default of the scheme
DefaultPortOfScheme(protocol, port) ==
    IF protocol = <<"http">> THEN <<"80">>
    ELSE IF protocol = <<"https">> THEN <<"443">>
    ELSE <<"unknown">>

\* statistics.go 243-255, 276-288, 349-361: the port of an entry
DefaultPort(protocol, port) ==
    IF port # <<>> THEN port
    ELSE IF protocol = <<"http">> THEN <<"80">>
    ELSE IF protocol = <<"https">> THEN <<"443">>
    ELSE <<"unknown">>

\* a map with one more key
Put(m, k, v) == [x \in (DOMAIN m) \cup {k} |-> IF x = k THEN v ELSE m[x]]

EmptyMap == [x \in {} |-> 0]

\* statistics.go 258-264, 290-296, 380-386
Entry(result, parsedURL) ==
    [Domain |-> Hostname(parsedURL), ResultID |-> result.ID, URL |-> result.URL,
     Protocol |-> parsedURL.Scheme,
     Port |-> DefaultPort(parsedURL.Scheme, Port(parsedURL))]

\* a pass that skips a row only when url.Parse fails
DomainSkippedOnParseError(result) == ParsedURLs[result.URL].err

\* statistics.go 210-223: rows the domain pass skips
DomainSkipped(result) ==
    \/ ParsedURLs[result.URL].err
    \/ Hostname(ParsedURLs[result.URL]) = <<>>
    \/ ApexDomains[result.URL] = <<>>

\* a group that counts an observation without listing it
ObservedUnlisted(apex, entry) == [apex EXCEPT !.Count = @ + 1]

\* statistics.go 236, 258-264, 290-296: a group with one more observation
Observed(apex, entry) ==
    [apex EXCEPT !.Count = @ + 1, !.Subdomains = Append(@, entry)]

\* a fold in which every observation of the apex itself takes over the
\* group's result id
FoldDomainLastApex(m, result) ==
    LET parsedURL == ParsedURLs[result.URL]
        hostname == Hostname(parsedURL)
        apexDomainName == ApexDomains[result.URL]
        apex == IF apexDomainName \in DOMAIN m THEN m[apexDomainName]
                ELSE [Domain |-> apexDomainName, IsApex |-> FALSE, ResultID |-> 0,
                      Subdomains |-> <<>>, Count |-> 0]
        counted == Observed(apex, Entry(result, parsedURL))
    IN IF hostname = apexDomainName
       THEN Put(m, apexDomainName, [counted EXCEPT !.IsApex = TRUE, !.ResultID = result.ID])
       ELSE Put(m, apexDomainName, counted)

\* statistics.go 225-297: one row folded into the map of apex groups
FoldDomain(m, result) ==
    LET parsedURL == ParsedURLs[result.URL]
        hostname == Hostname(parsedURL)
        apexDomainName == ApexDomains[result.URL]
        apex == IF apexDomainName \in DOMAIN m THEN m[apexDomainName]
                ELSE [Domain |-> apexDomainName, IsApex |-> FALSE, ResultID |-> 0,
                      Subdomains |-> <<>>, Count |-> 0]
        counted == Observed(apex, Entry(result, parsedURL))
    IN IF hostname = apexDomainName
       THEN Put(m, apexDomainName,
                [counted EXCEPT !.IsApex = TRUE,
                                !.ResultID = IF @ = 0 THEN result.ID ELSE @])
       ELSE Put(m, apexDomainName, counted)

\* statistics.go 209-298: the pass over the rows
RECURSIVE ApexDomainMap(_, _, _)
ApexDomainMap(rows, i, m) ==
    IF i > Len(rows) THEN m
    ELSE IF DomainSkipped(rows[i]) THEN ApexDomainMap(rows, i + 1, m)
    ELSE ApexDomainMap(rows, i + 1, FoldDomain(m, rows[i]))

\* statistics.go 271-273: rows counted as subdomains
RECURSIVE TotalSubdomains(_, _)
TotalSubdomains(rows, i) ==
    IF i > Len(rows) THEN 0
    ELSE TotalSubdomains(rows, i + 1)
         + (IF ~DomainSkipped(rows[i])
               /\ Hostname(ParsedURLs[rows[i].URL]) # ApexDomains[rows[i].URL]
            THEN 1 ELSE 0)

Swap(list, j) == [list EXCEPT ![j] = list[j + 1], ![j + 1] = list[j]]

\* statistics.go 308-312, 406-410: the inner loop of the bubble sort, over
\* [key, val] pairs, j counted from 1
RECURSIVE BubbleInner(_, _, _)
BubbleInner(list, j, last) ==
    IF j > last THEN list
    ELSE BubbleInner(IF list[j].key < list[j + 1].key THEN Swap(list, j) ELSE list,
                     j + 1, last)

\* statistics.go 307-313, 405-411: descending bubble sort by key
RECURSIVE BubbleOuter(_, _)
BubbleOuter(list, i) ==
    IF i >= Len(list) - 1 THEN list
    ELSE BubbleOuter(BubbleInner(list, 1, Len(list) - i - 1), i + 1)

\* a sort that leaves the list as the map iteration gave it
BubbleSortNone(list) == list

BubbleSort(list) == BubbleOuter(list, 0)

\* the values of a list of [key, val] pairs
Vals(list) == [i \in 1..Len(list) |-> list[i].val]

\* a result whose total_domains counts the rows folded, not the rows read
DomainStatisticsOfFolded(rows, m, order) ==
    LET apexDomains == [i \in 1..Len(order) |-> [key |-> m[order[i]].Count, val |-> m[order[i]]]]
    IN [computed |-> TRUE,
        UniqueApexDomains |-> Cardinality(DOMAIN m),
        TotalSubdomains |-> TotalSubdomains(rows, 1),
        TotalDomains |-> Len(SelectSeq(rows, LAMBDA result : ~DomainSkipped(result))),
        ApexDomains |-> Vals(BubbleSort(apexDomains))]

\* statistics.go 300-320: the result, for the rows read, the map built from
\* them and the order in which the map is iterated
DomainStatistics(rows, m, order) ==
    LET apexDomains == [i \in 1..Len(order) |-> [key |-> m[order[i]].Count, val |-> m[order[i]]]]
    IN [computed |-> TRUE,
        UniqueApexDomains |-> Cardinality(DOMAIN m),
        TotalSubdomains |-> TotalSubdomains(rows, 1),
        TotalDomains |-> Len(rows),
        ApexDomains |-> Vals(BubbleSort(apexDomains))]

\* statistics.go 326: the rows the IP pass reads (ip_address != '')
RowsWithIP(rows) == SelectSeq(rows, LAMBDA result : result.IPAddress # EmptyString)

\* statistics.go 334-346: rows the IP pass skips
IPSkipped(result) ==
    \/ result.IPAddress = EmptyString
    \/ ParsedURLs[result.URL].err
    \/ Hostname(ParsedURLs[result.URL]) = <<>>

\* a window whose start is never moved
EarlierNever(currentProbed, firstSeen) == firstSeen

\* statistics.go 390-395: the first-seen / last-seen window widened by a time
Earlier(currentProbed, firstSeen) ==
    IF StrLess(currentProbed, firstSeen) THEN currentProbed ELSE firstSeen

Later(currentProbed, lastSeen) ==
    IF StrLess(lastSeen, currentProbed) THEN currentProbed ELSE lastSeen

\* a fold in which the first row of an address only initialises its group
FoldIPFirstUncounted(m, result) ==
    LET parsedURL == ParsedURLs[result.URL]
        hostname == Hostname(parsedURL)
        currentProbed == FormatTime(result.ProbedAt)
    IN IF result.IPAddress \in DOMAIN m
       THEN Put(m, result.IPAddress,
                [m[result.IPAddress] EXCEPT
                     !.DomainCount = @ + 1,
                     !.Domains = Append(@, Entry(result, parsedURL)),
                     !.FirstSeen = Earlier(currentProbed, @),
                     !.LastSeen = Later(currentProbed, @)])
       ELSE Put(m, result.IPAddress,
                [IPAddress |-> result.IPAddress, DomainCount |-> 1,
                 FirstSeen |-> currentProbed, LastSeen |-> currentProbed,
                 SampleDomain |-> hostname, ResultID |-> result.ID,
                 Domains |-> <<>>])

\* statistics.go 363-395: one row folded into the map of IP groups
FoldIP(m, result) ==
    LET parsedURL == ParsedURLs[result.URL]
        hostname == Hostname(parsedURL)
        currentProbed == FormatTime(result.ProbedAt)
        ipEntry == IF result.IPAddress \in DOMAIN m THEN m[result.IPAddress]
                   ELSE [IPAddress |-> result.IPAddress, DomainCount |-> 0,
                         FirstSeen |-> currentProbed, LastSeen |-> currentProbed,
                         SampleDomain |-> hostname, ResultID |-> result.ID,
                         Domains |-> <<>>]
    IN Put(m, result.IPAddress,
           [ipEntry EXCEPT !.DomainCount = @ + 1,
                           !.Domains = Append(@, Entry(result, parsedURL)),
                           !.FirstSeen = Earlier(currentProbed, @),
                           !.LastSeen = Later(currentProbed, @)])

\* statistics.go 333-396: the pass over the rows
RECURSIVE IPMap(_, _, _)
IPMap(rows, i, m) ==
    IF i > Len(rows) THEN m
    ELSE IF IPSkipped(rows[i]) THEN IPMap(rows, i + 1, m)
    ELSE IPMap(rows, i + 1, FoldIP(m, rows[i]))

\* statistics.go 398-417: the result, for the rows read, the map built from
\* them and the order in which the map is iterated
IPStatistics(read, m, order) ==
    LET ipList == [i \in 1..Len(order) |-> [key |-> m[order[i]].DomainCount, val |-> m[order[i]]]]
    IN [computed |-> TRUE,
        UniqueIPs |-> Cardinality(DOMAIN m),
        TotalResults |-> Len(read),
        IPList |-> Vals(BubbleSort(ipList))]

\* the rows the scanner may write: URLs without a resolved address, one URL
\* seen at one address at the three times, a second address, and two rows
\* whose URL yields no hostname
ProbeInputs ==
    {[URL |-> u, IPAddress |-> EmptyString, ProbedAt |-> TimeA] :
        u \in {URLExampleCoUk, URLSubExampleCom, URLLocalhost, URLTen, URLPrivate,
               URLCoUk}}
    \cup {[URL |-> URLWwwExampleCoUk, IPAddress |-> IPA, ProbedAt |-> t] : t \in Times}
    \cup {[URL |-> URLMalformed, IPAddress |-> IPA, ProbedAt |-> TimeA],
          [URL |-> URLNoScheme, IPAddress |-> IPB, ProbedAt |-> TimeA],
          [URL |-> URLFtp, IPAddress |-> IPB, ProbedAt |-> TimeB]}

\* the scan pipeline stores a probe result; responses computed before it are stale
InsertResult ==
    /\ Len(results) < MaxResults
    /\ \E probe \in ProbeInputs :
         results' = Append(results, [ID |-> Len(results) + 1, URL |-> probe.URL,
                                     IPAddress |-> probe.IPAddress,
                                     ProbedAt |-> probe.ProbedAt])
    /\ domainStats' = NoStats
    /\ ipStats' = NoStats
    /\ UNCHANGED <<resolverVars, importVars, statsVars, extraVars>>

\* statistics.go 199-321: Find returns the rows in table order; the groups are
\* collected by iterating over the map
calculateDomainStatistics ==
    /\ \E m \in {ApexDomainMap(results, 1, EmptyMap)} :
         \E order \in Orders(DOMAIN m) :
           domainStats' = DomainStatistics(results, m, order)
    /\ UNCHANGED <<results, ipStats, resolverVars, importVars, statsVars, extraVars>>

\* statistics.go 324-418
calculateIPStatistics ==
    /\ \E read \in {RowsWithIP(results)} :
         \E m \in {IPMap(read, 1, EmptyMap)} :
           \E order \in Orders(DOMAIN m) :
             ipStats' = IPStatistics(read, m, order)
    /\ UNCHANGED <<results, domainStats, resolverVars, importVars, statsVars, extraVars>>

(***************************************************************************)
(* The list codec of the IPInfo model.                                     *)
(***************************************************************************)
\* the longest list given to a setter
MaxListLen == 2

\* lower-case hexadecimal digit
HexDigit(d) == IF d < 10 THEN 48 + d ELSE 87 + d

HexValue(c) == IF c >= 97 THEN c - 87 ELSE IF c >= 65 THEN c - 55 ELSE c - 48

\* encoding/json, string encoding with HTML escaping: the quote, the backslash
\* and the newline get a two-character escape; other control characters and
\* "<", ">", "&" are written as \u00XX; every other character stands for itself
EncodeChar(c) ==
    IF c = 34 THEN <<92, 34>>
    ELSE IF c = 92 THEN <<92, 92>>
    ELSE IF c = 10 THEN <<92, 110>>
    ELSE IF c = 13 THEN <<92, 114>>
    ELSE IF c = 9 THEN <<92, 116>>
    ELSE IF c < 32 \/ c \in {60, 62, 38}
         THEN <<92, 117, 48, 48, HexDigit(c \div 16), HexDigit(c % 16)>>
    ELSE <<c>>

RECURSIVE EncodeChars(_)
EncodeChars(str) ==
    IF str = <<>> THEN <<>> ELSE EncodeChar(Head(str)) \o EncodeChars(Tail(str))

MarshalString(str) == <<34>> \o EncodeChars(str) \o <<34>>

RECURSIVE JoinStrings(_)
JoinStrings(list) ==
    IF Len(list) = 0 THEN <<>>
    ELSE IF Len(list) = 1 THEN MarshalString(list[1])
    ELSE MarshalString(list[1]) \o <<44>> \o JoinStrings(Tail(list))

\* json.Marshal of a []string: ["a","b"]
MarshalStrings(list) == <<91>> \o JoinStrings(list) \o <<93>>

\* the character a two-character escape stands for
Unescape(c) ==
    IF c = 110 THEN 10 ELSE IF c = 114 THEN 13 ELSE IF c = 116 THEN 9
    ELSE IF c = 98 THEN 8 ELSE IF c = 102 THEN 12 ELSE c

\* a decoder that takes the character after a backslash as it is
UnescapeLiteral(text, i) == [char |-> text[i + 1], next |-> i + 2]

\* the character an escape at position i (a backslash) stands for, and the
\* position after the escape
UnescapeAt(text, i) ==
    IF text[i + 1] = 117
    THEN [char |-> HexValue(text[i + 2]) * 4096 + HexValue(text[i + 3]) * 256
                   + HexValue(text[i + 4]) * 16 + HexValue(text[i + 5]),
          next |-> i + 6]
    ELSE [char |-> Unescape(text[i + 1]), next |-> i + 2]

\* json.Unmarshal of the text of a []string: outside a string the brackets and
\* commas are passed over; a quote opens a string, the next unescaped quote
\* closes it
RECURSIVE UnmarshalStringsFrom(_, _, _, _, _)
UnmarshalStringsFrom(text, i, cur, inString, acc) ==
    IF i > Len(text) THEN [list |-> acc, err |-> inString]
    ELSE IF ~inString
         THEN UnmarshalStringsFrom(text, i + 1, <<>>, text[i] = 34, acc)
         ELSE IF text[i] = 34
              THEN UnmarshalStringsFrom(text, i + 1, <<>>, FALSE, Append(acc, cur))
              ELSE IF text[i] = 92
                   THEN UnmarshalStringsFrom(text, UnescapeAt(text, i).next,
                                             Append(cur, UnescapeAt(text, i).char), TRUE, acc)
                   ELSE UnmarshalStringsFrom(text, i + 1, Append(cur, text[i]), TRUE, acc)

\* models.go 202-213, 250-261, 274-285, 298-309: SetTags, SetHostnames,
\* SetDomains, SetVulns: the value stored in the column
SetStrings(list, isNil) == IF isNil THEN EmptyString ELSE MarshalStrings(list)

\* models.go 216-223, 264-271, 288-295, 312-319: GetTags, GetHostnames,
\* GetDomains, GetVulns
GetStrings(column) ==
    IF column = EmptyString THEN [list |-> <<>>, err |-> FALSE]
    ELSE UnmarshalStringsFrom(column, 1, <<>>, FALSE, <<>>)

\* the multi-valued fields of an IPInfo
StringFields == {"Tags", "Hostnames", "Domains", "Vulns"}

\* strings a Shodan host may carry: "", "a", a quote, "a\", ",]", "<b", a
\* newline
ElementStrings == {<<>>, <<97>>, <<34>>, <<97, 92>>, <<44, 93>>, <<60, 98>>, <<10>>}

ElementPorts == {0, 80, 65535}

\* the lists of at most n elements of a set
RECURSIVE ListsUpTo(_, _)
ListsUpTo(S, n) ==
    IF n = 0 THEN {<<>>}
    ELSE ListsUpTo(S, n - 1) \cup {Append(l, x) : l \in {k \in ListsUpTo(S, n - 1) : Len(k) = n - 1}, x \in S}

IdleCodec == [pc |-> "idle", field |-> "", list |-> <<>>, isNil |-> FALSE,
              column |-> EmptyString, out |-> <<>>, err |-> FALSE]

\* a setter is called on a record: with nil, or with a list
SetField ==
    /\ codec.pc = "idle"
    /\ \/ \E field \in StringFields, isNil \in BOOLEAN, list \in ListsUpTo(ElementStrings, MaxListLen) :
            /\ isNil => list = <<>>
            /\ codec' = [codec EXCEPT !.pc = "set", !.field = field, !.list = list,
                                      !.isNil = isNil, !.column = SetStrings(list, isNil)]
       \/ \E isNil \in BOOLEAN, list \in ListsUpTo(ElementPorts, MaxListLen) :
            /\ isNil => list = <<>>
            /\ codec' = [codec EXCEPT !.pc = "set", !.field = "Ports", !.list = list,
                                      !.isNil = isNil, !.column = SetPorts(list, isNil)]
    /\ UNCHANGED <<resolverVars, aggVars, importVars, statsVars, workflow, registry, web>>

\* the getter of the same field is called on the record
GetField ==
    /\ codec.pc = "set"
    /\ IF codec.field = "Ports"
       THEN codec' = [codec EXCEPT !.pc = "got", !.out = GetPorts(codec.column), !.err = FALSE]
       ELSE \E got \in {GetStrings(codec.column)} :
              codec' = [codec EXCEPT !.pc = "got", !.out = got.list, !.err = got.err]
    /\ UNCHANGED <<resolverVars, aggVars, importVars, statsVars, workflow, registry, web>>

NextCodec ==
    \/ SetField
    \/ GetField

(***************************************************************************)
(* The workflow of `scan run`.                                             *)
(***************************************************************************)
\* the options of `scan run` (runCmdOptions)
ProjectPaths == {"", "targets/acme"}

ProjectNames == {"", "acme"}

NoError == <<>>

\* the phases of the workflow, in the order of the slice
Phases(options) ==
    << [Name |-> "Shodan Intelligence", StatusName |-> "Portscanning",
        Command |-> "executeShodanScan", Skip |-> options.SkipShodan],
       [Name |-> "Screenshot Collection", StatusName |-> "Screenshotting",
        Command |-> "executeScreenshotScan", Skip |-> options.SkipScreens] >>

IdleWorkflow ==
    [pc |-> "idle",
     options |-> [ProjectPath |-> "", ProjectName |-> "", Verbose |-> FALSE,
                  SkipShodan |-> FALSE, SkipScreens |-> FALSE],
     idx |-> 1, events |-> <<>>, commands |-> <<>>, statuses |-> <<>>,
     err |-> NoError, returned |-> FALSE]

\* updateRunProjectStatus: nothing without a project name
updateRunProjectStatus(w, status) ==
    IF w.options.ProjectName = "" THEN w
    ELSE [w EXCEPT !.statuses = Append(@, status)]

\* the arguments of the gowitness command a phase runs
CommandArgs(options, phase) ==
    [sub |-> IF phase.Command = "executeShodanScan" THEN "shodan" ELSE "file",
     verbose |-> IF ~options.Verbose THEN ""
                 ELSE IF phase.Command = "executeShodanScan" THEN "--verbose" ELSE "--debug-log",
     project |-> options.ProjectName]

\* the workflow after a phase's command returned, continuing in spite of an error
AfterCommandContinue(w, phase, err) ==
    [updateRunProjectStatus(w, <<"Complete", phase.StatusName>>) EXCEPT
        !.pc = "loop", !.idx = @ + 1,
        !.events = Append(@, <<IF err = NoError THEN "completed" ELSE "failed", phase.Name>>)]

\* the workflow after a phase's command returned
AfterCommand(w, phase, err) ==
    IF err # NoError
    THEN [updateRunProjectStatus(w, <<"Error", phase.StatusName>>) EXCEPT
             !.pc = "returned", !.err = <<"scan phase failed", phase.Name>>,
             !.returned = TRUE,
             !.events = Append(@, <<"failed", phase.Name>>)]
    ELSE [updateRunProjectStatus(w, <<"Complete", phase.StatusName>>) EXCEPT
             !.pc = "loop", !.idx = @ + 1,
             !.events = Append(@, <<"completed", phase.Name>>)]

\* PreRunE: the project path is given, the directory and domains.txt exist
PreRunE ==
    /\ workflow.pc = "idle"
    /\ \E path \in ProjectPaths, name \in ProjectNames, verbose \in BOOLEAN,
          skipShodan \in BOOLEAN, skipScreens \in BOOLEAN,
          dirExists \in BOOLEAN, domainsExists \in BOOLEAN :
          \E options \in {[ProjectPath |-> path, ProjectName |-> name, Verbose |-> verbose,
                           SkipShodan |-> skipShodan, SkipScreens |-> skipScreens]} :
            workflow' =
                IF path = ""
                THEN [workflow EXCEPT !.pc = "done", !.options = options,
                                      !.err = <<"project path must be specified">>]
                ELSE IF ~dirExists
                THEN [workflow EXCEPT !.pc = "done", !.options = options,
                                      !.err = <<"project directory does not exist">>]
                ELSE IF ~domainsExists
                THEN [workflow EXCEPT !.pc = "done", !.options = options,
                                      !.err = <<"domains.txt file not found">>]
                ELSE [workflow EXCEPT !.pc = "run", !.options = options]
    /\ UNCHANGED <<resolverVars, aggVars, importVars, statsVars, codec, registry, web>>

\* Run: the status of the whole scan, then the workflow is called
RunStart ==
    /\ workflow.pc = "run"
    /\ workflow' = [updateRunProjectStatus(workflow, <<"Running", "Full Scan">>) EXCEPT
                       !.pc = "loop", !.idx = 1]
    /\ UNCHANGED <<resolverVars, aggVars, importVars, statsVars, codec, registry, web>>

\* executeFullScanWorkflow: the head of the loop over the phases
PhaseStart ==
    /\ workflow.pc = "loop"
    /\ workflow.idx <= Len(Phases(workflow.options))
    /\ \E phase \in {Phases(workflow.options)[workflow.idx]} :
         workflow' =
             IF phase.Skip
             THEN [workflow EXCEPT !.idx = @ + 1]
             ELSE [updateRunProjectStatus(workflow, <<"Running", phase.StatusName>>) EXCEPT
                      !.pc = "command",
                      !.events = Append(@, <<"started", phase.Name>>)]
    /\ UNCHANGED <<resolverVars, aggVars, importVars, statsVars, codec, registry, web>>

\* executeShodanScan, executeScreenshotScan: the command runs and may fail;
\* the screenshot directory is made first and that may fail too
PhaseCommand ==
    /\ workflow.pc = "command"
    /\ \E phase \in {Phases(workflow.options)[workflow.idx]}, mkdirFails \in BOOLEAN,
          commandFails \in BOOLEAN :
         /\ mkdirFails => phase.Command = "executeScreenshotScan" /\ ~commandFails
         /\ \E ran \in {IF mkdirFails THEN workflow
                        ELSE [workflow EXCEPT !.commands =
                                 Append(@, CommandArgs(workflow.options, phase))]} :
              workflow' = AfterCommand(ran, phase,
                              IF mkdirFails THEN <<"failed to create screenshot directory">>
                              ELSE IF commandFails THEN <<"scan failed">>
                              ELSE NoError)
    /\ UNCHANGED <<resolverVars, aggVars, importVars, statsVars, codec, registry, web>>

\* executeFullScanWorkflow: no phase is left
WorkflowReturn ==
    /\ workflow.pc = "loop"
    /\ workflow.idx > Len(Phases(workflow.options))
    /\ workflow' = [workflow EXCEPT !.pc = "returned", !.err = NoError, !.returned = TRUE]
    /\ UNCHANGED <<resolverVars, aggVars, importVars, statsVars, codec, registry, web>>

\* Run: the status of the whole scan after the workflow returned
RunEnd ==
    /\ workflow.pc = "returned"
    /\ workflow' = [updateRunProjectStatus(workflow,
                        IF workflow.err # NoError THEN <<"Error", "Scan failed">>
                        ELSE <<"Complete", "Full Scan">>) EXCEPT !.pc = "done"]
    /\ UNCHANGED <<resolverVars, aggVars, importVars, statsVars, codec, registry, web>>

NextWorkflow ==
    \/ PreRunE
    \/ RunStart
    \/ PhaseStart
    \/ PhaseCommand
    \/ WorkflowReturn
    \/ RunEnd

(***************************************************************************)
(* The registry config file.                                               *)
(***************************************************************************)
MaxSaves == 2

\* the registry contents a caller saves (Add, Remove and SetActive change them)
Configs == {1, 2}

\* what a path of the file system holds
Absent == [exists |-> FALSE, config |-> 0, complete |-> FALSE]

Content(config, complete) == [exists |-> TRUE, config |-> config, complete |-> complete]

IdleRegistry ==
    [pc |-> "idle", calls |-> 0, config |-> 0, prev |-> Absent,
     file |-> Absent, temp |-> Absent, err |-> NoError]

\* SaveConfig is called; os.MkdirAll of the directory
SaveConfig ==
    /\ registry.pc = "idle"
    /\ registry.calls < MaxSaves
    /\ \E config \in Configs, mkdirFails \in BOOLEAN :
         registry' = [registry EXCEPT
             !.pc = IF mkdirFails THEN "returned" ELSE "create",
             !.calls = @ + 1,
             !.config = config,
             !.prev = registry.file,
             !.err = IF mkdirFails THEN <<"failed to create config directory">> ELSE NoError]
    /\ UNCHANGED <<resolverVars, aggVars, importVars, statsVars, codec, workflow, web>>

\* os.Create(tempPath): the temp file is created or truncated
CreateTemp ==
    /\ registry.pc = "create"
    /\ \E createFails \in BOOLEAN :
         registry' = IF createFails
                     THEN [registry EXCEPT !.pc = "returned",
                                           !.err = <<"failed to create temp config file">>]
                     ELSE [registry EXCEPT !.pc = "encode",
                                           !.temp = Content(registry.config, FALSE)]
    /\ UNCHANGED <<resolverVars, aggVars, importVars, statsVars, codec, workflow, web>>

\* encoder.Encode(config): the write of the temp file, whole or failing part-way
Encode ==
    /\ registry.pc = "encode"
    /\ \E encodeFails \in BOOLEAN :
         registry' = IF encodeFails
                     THEN [registry EXCEPT !.pc = "remove",
                                           !.err = <<"failed to encode config">>]
                     ELSE [registry EXCEPT !.pc = "close",
                                           !.temp = Content(registry.config, TRUE)]
    /\ UNCHANGED <<resolverVars, aggVars, importVars, statsVars, codec, workflow, web>>

\* file.Close(): its error is not looked at; a close that fails may have lost
\* written data
CloseTemp ==
    /\ registry.pc = "close"
    /\ \E closeFails \in BOOLEAN, kept \in BOOLEAN :
         /\ ~closeFails => kept
         /\ registry' = [registry EXCEPT !.pc = "rename",
                                         !.temp = Content(registry.config, kept)]
    /\ UNCHANGED <<resolverVars, aggVars, importVars, statsVars, codec, workflow, web>>

\* os.Rename(tempPath, configPath)
Rename ==
    /\ registry.pc = "rename"
    /\ \E renameFails \in BOOLEAN :
         registry' = IF renameFails
                     THEN [registry EXCEPT !.pc = "remove",
                                           !.err = <<"failed to replace config file">>]
                     ELSE [registry EXCEPT !.pc = "returned",
                                           !.file = registry.temp,
                                           !.temp = Absent,
                                           !.err = NoError]
    /\ UNCHANGED <<resolverVars, aggVars, importVars, statsVars, codec, workflow, web>>

\* os.Remove(tempPath) on the two error paths: its error is not looked at
RemoveTemp ==
    /\ registry.pc = "remove"
    /\ \E removeFails \in BOOLEAN :
         registry' = [registry EXCEPT !.pc = "returned",
                                      !.temp = IF removeFails THEN @ ELSE Absent]
    /\ UNCHANGED <<resolverVars, aggVars, importVars, statsVars, codec, workflow, web>>

\* the caller has the result; the next call may follow
Returned ==
    /\ registry.pc = "returned"
    /\ registry' = [registry EXCEPT !.pc = "idle"]
    /\ UNCHANGED <<resolverVars, aggVars, importVars, statsVars, codec, workflow, web>>

NextRegistry ==
    \/ SaveConfig
    \/ CreateTemp
    \/ Encode
    \/ CloseTemp
    \/ Rename
    \/ RemoveTemp
    \/ Returned

(***************************************************************************)
(* Password authentication of the web server.                              *)
(***************************************************************************)
MaxCookies == 2

\* the passwords a server is started with, and the ones a login form posts
Passwords == {"", "secret", "hunter2"}

\* hashPassword: the SHA-256 digest of the password, in hex
hashPassword(password) ==
    CASE password = "" -> "e3b0c44298fc1c149afbf4c8996fb92427ae41e4649b934ca495991b7852b855"
      [] password = "secret" -> "2bb80d537b1da3e38bd30361aa855686bde0eacd7162fef6a25fe97bf527a25b"
      [] password = "hunter2" -> "f52fbd32b2b3b86ff88ef6c490628285f482af15ddcb29541f94bcf526a3f6c7"

\* the values of the gowitness_auth cookies a request carries
CookieValues == {hashPassword(p) : p \in Passwords} \cup {"secret"}

\* the X-Forwarded-Prefix headers of a request: none, "/gw" and "/gw/"
Prefixes == {<<>>, <<47, 103, 119>>, <<47, 103, 119, 47>>}

LoginPath == <<108, 111, 103, 105, 110>>

Methods == {"GET", "POST"}

\* the paths of a request and the handler the router has for each
ProtectedPaths == {"/api/ping", "/screenshots/a.png", "/swagger/index.html", "/"}

Paths == ProtectedPaths \cup {"/login"}

ProtectedHandler(path) ==
    CASE path = "/api/ping" -> "PingHandler"
      [] path = "/screenshots/a.png" -> "FileServer"
      [] path = "/swagger/index.html" -> "httpSwagger"
      [] OTHER -> "SpaHandler"

HttpRequests ==
    [Method : Methods, Path : Paths, Prefix : Prefixes, password : Passwords,
     cookies : ListsUpTo(CookieValues, MaxCookies)]

NoCookie == <<>>

NoRequest == [Method |-> "", Path |-> "", Prefix |-> <<>>, password |-> "", cookies |-> <<>>]

NoResult == [status |-> 0, Location |-> <<>>, SetCookie |-> NoCookie, handler |-> "", message |-> ""]

\* getBasePath: the prefix with a slash at its end, "/" without a prefix
getBasePath(r) ==
    IF r.Prefix = <<>> THEN <<47>>
    ELSE IF r.Prefix[Len(r.Prefix)] # 47 THEN Append(r.Prefix, 47)
    ELSE r.Prefix

\* http.Redirect with StatusTemporaryRedirect
Redirect(location) == [NoResult EXCEPT !.status = 307, !.Location = location]

\* the protected handler runs and answers
NextServeHTTP(r) == [NoResult EXCEPT !.status = 200, !.handler = ProtectedHandler(r.Path)]

\* the middleware letting every request with a gowitness_auth cookie pass
passwordAuthMiddlewareAnyCookie(Password, r) ==
    IF Password = "" THEN NextServeHTTP(r)
    ELSE IF r.cookies = <<>>
    THEN Redirect(getBasePath(r) \o LoginPath)
    ELSE NextServeHTTP(r)

\* passwordAuthMiddleware; r.Cookie gives the first cookie of the name
passwordAuthMiddleware(Password, r) ==
    IF Password = "" THEN NextServeHTTP(r)
    ELSE IF r.cookies = <<>> \/ r.cookies[1] # hashPassword(Password)
    THEN Redirect(getBasePath(r) \o LoginPath)
    ELSE NextServeHTTP(r)

renderLoginPage(message) ==
    [NoResult EXCEPT !.status = 200, !.handler = "loginHandler", !.message = message]

\* loginHandler
loginHandler(Password, r) ==
    \* the base path and the cookie path are bound before either is used
    LET basePath == getBasePath(r)
        cookiePath == IF basePath # <<47>> THEN SubSeq(basePath, 1, Len(basePath) - 1)
                      ELSE basePath
    IN  IF r.Method = "POST"
        THEN IF r.password = Password
             THEN [Redirect(basePath) EXCEPT
                      !.SetCookie = <<hashPassword(Password), cookiePath>>]
             ELSE renderLoginPage("Invalid password")
        ELSE renderLoginPage("")

\* the router of Server.Run: /login is a route only with a password
Route(Password, r) ==
    IF Password # "" /\ r.Path = "/login"
    THEN loginHandler(Password, r)
    ELSE passwordAuthMiddleware(Password, r)

IdleWeb == [pc |-> "idle", Password |-> "", request |-> NoRequest, response |-> NoResult]

\* Server.Run: the server starts with its password
ServerRun ==
    /\ web.pc = "idle"
    /\ \E Password \in Passwords :
         web' = [web EXCEPT !.pc = "serving", !.Password = Password]
    /\ UNCHANGED <<resolverVars, aggVars, importVars, statsVars, codec, workflow, registry>>

\* a request is served
ServeHTTP ==
    /\ web.pc = "serving"
    /\ \E r \in HttpRequests :
         web' = [web EXCEPT !.pc = "served", !.request = r,
                            !.response = Route(web.Password, r)]
    /\ UNCHANGED <<resolverVars, aggVars, importVars, statsVars, codec, workflow, registry>>

\* the response is sent; the server waits for the next request
ResponseSent ==
    /\ web.pc = "served"
    /\ web' = [web EXCEPT !.pc = "serving", !.request = NoRequest, !.response = NoResult]
    /\ UNCHANGED <<resolverVars, aggVars, importVars, statsVars, codec, workflow, registry>>

NextWeb ==
    \/ ServerRun
    \/ ServeHTTP
    \/ ResponseSent

\* nothing of the four has started
ExtraIdle ==
    /\ codec = IdleCodec
    /\ workflow = IdleWorkflow
    /\ registry = IdleRegistry
    /\ web = IdleWeb

(***************************************************************************)
(* The statistics handler (GET /statistics) and the scan sessions it reads.*)
(***************************************************************************)
Companies == {"Acme", "Globex"}

\* cmd/scan_domains.go 509-519: a scan is initialised; its session row gets the
\* wall-clock time of that moment
InsertSession ==
    /\ Cardinality(sessions) < MaxSessions
    /\ \E company \in Companies, now \in Times :
         sessions' = sessions \cup
             {[ID |-> NextID(sessions), CompanyName |-> company, StartTime |-> now,
               Status |-> "active"]}
    /\ UNCHANGED <<resolverVars, aggVars, importVars, statsResp, extraVars>>

\* the queries of the handler that end it when they fail, in the order in which
\* it runs them, each with the message it logs
StatsQueries ==
    << "an error occured getting database size",
       "an error occured counting results",
       "an error occured counting headers",
       "an error occured counting network logs",
       "an error occured counting console logs",
       "failed counting response codes",
       "failed calculating domain statistics",
       "failed calculating IP statistics" >>

TargetWarning == "failed getting target information"

NoBody == [written |-> FALSE]

\* what the client of the handler gets (status 0: no request was answered yet)
\* and what the handler logged
NoResponse == [status |-> 0, body |-> NoBody, log |-> ""]

\* statistics.go 127-178: a failing query is logged and the handler returns
\* without writing: net/http then answers 200 with an empty body
Aborted(message) == [status |-> 200, body |-> NoBody, log |-> message]

NilTargetInfo == [CompanyName |-> "", ScanStartTime |-> EmptyString, ScanStatus |-> ""]

\* gorm First with no order: the row with the lowest primary key
LatestSessionByID(rows) == FirstRow(rows)

\* statistics.go 423: Order("start_time DESC").First: the latest start time, the
\* lowest primary key among equal start times
LatestSession(rows) ==
    CHOOSE session \in rows :
        \A other \in rows :
            /\ ~Before(session.StartTime, other.StartTime)
            /\ other.StartTime = session.StartTime => session.ID <= other.ID

\* statistics.go 427-434
TargetInformation(session) ==
    [CompanyName |-> session.CompanyName,
     ScanStartTime |-> FormatTime(session.StartTime),
     ScanStatus |-> session.Status]

\* statistics.go 421-435: a failing query and an empty table are both errors
getTargetInformation(rows, queryFails) ==
    IF queryFails \/ rows = {}
    THEN [err |-> TRUE, targetInfo |-> NilTargetInfo]
    ELSE [err |-> FALSE, targetInfo |-> TargetInformation(LatestSession(rows))]

\* statistics.go 180-196: the response with the counts, both aggregates and the
\* target information (left empty, with a warning, if its lookup failed)
Written(count, domains, ips, target) ==
    [status |-> 200,
     body |-> [written |-> TRUE, Results |-> count, DomainStats |-> domains,
               IPStats |-> ips, TargetInfo |-> target.targetInfo],
     log |-> IF target.err THEN TargetWarning ELSE ""]

\* statistics.go 124-197: failing = 0 if every query succeeds, else the number
\* of the first query that fails
StatisticsHandler ==
    /\ \E failing \in 0..Len(StatsQueries), sessionFails \in BOOLEAN :
         IF failing # 0
         THEN statsResp' = Aborted(StatsQueries[failing])
         ELSE \E dm \in {ApexDomainMap(results, 1, EmptyMap)}, read \in {RowsWithIP(results)} :
                \E im \in {IPMap(read, 1, EmptyMap)} :
                  \E dorder \in Orders(DOMAIN dm), iorder \in Orders(DOMAIN im) :
                    statsResp' = Written(Len(results),
                                         DomainStatistics(results, dm, dorder),
                                         IPStatistics(read, im, iorder),
                                         getTargetInformation(sessions, sessionFails))
    /\ UNCHANGED <<resolverVars, aggVars, importVars, sessions, extraVars>>

\* the results tables the handler is run on: an empty one, and one with two
\* apex domains of one row each at two addresses
StatsTables ==
    { <<>>,
      <<[ID |-> 1, URL |-> URLWwwExampleCoUk, IPAddress |-> IPA, ProbedAt |-> TimeA],
        [ID |-> 2, URL |-> URLFtp, IPAddress |-> IPB, ProbedAt |-> TimeB]>> }

InitStats ==
    /\ ipInfos = {}
    /\ ipPorts = {}
    /\ req = [r \in Requests |-> IdleRequest]
    /\ scan = IdleScan
    /\ naabuImport = IdleImport
    /\ sessions = {}
    /\ statsResp = NoResponse
    /\ ExtraIdle
    /\ results \in StatsTables
    /\ domainStats = NoStats
    /\ ipStats = NoStats

NextStats ==
    \/ InsertSession
    \/ StatisticsHandler

SpecStats == InitStats /\ [][NextStats]_vars

InitAgg ==
    /\ ipInfos = {}
    /\ ipPorts = {}
    /\ req = [r \in Requests |-> IdleRequest]
    /\ scan = IdleScan
    /\ naabuImport = IdleImport
    /\ sessions = {}
    /\ statsResp = NoResponse
    /\ ExtraIdle
    /\ results = <<>>
    /\ domainStats = NoStats
    /\ ipStats = NoStats

NextAgg ==
    \/ InsertResult
    \/ calculateDomainStatistics
    \/ calculateIPStatistics

SpecAgg == InitAgg /\ [][NextAgg]_vars

(***************************************************************************)
(* The resolver: requests and the scan against one store.                  *)
(***************************************************************************)
Init ==
    /\ ipInfos = {}
    /\ ipPorts = {}
    /\ req = [r \in Requests |-> IdleRequest]
    /\ \E hosts \in ScanHostLists : scan = [IdleScan EXCEPT !.hosts = hosts]
    /\ naabuImport = IdleImport
    /\ sessions = {}
    /\ statsResp = NoResponse
    /\ ExtraIdle
    /\ results = <<>>
    /\ domainStats = NoStats
    /\ ipStats = NoStats

Next ==
    \/ \E r \in Requests : IPInfoHandler(r)
    \/ \E r \in Requests : LookupIPInfo(r)
    \/ \E r \in Requests : ExistingPorts(r)
    \/ \E r \in Requests : RespondWithoutStore(r)
    \/ \E r \in Requests : storeFallbackIPDataCheck(r)
    \/ \E r \in Requests : storeFallbackIPDataCreate(r)
    \/ \E r \in Requests : RefetchIPInfo(r)
    \/ runShodanScan
    \/ ScanCheckExisting
    \/ ScanPortCheck
    \/ ScanPortCreate
    \/ ScanSave

Spec == Init /\ [][Next]_vars

(***************************************************************************)
(* The importers of port records: a run of `scan shodan` and an import of  *)
(* naabu results against one store.                                        *)
(***************************************************************************)
\* hosts files: an address in two spellings, a name and the address it resolves
\* to, an address twice
ImportHostLists ==
    { <<IPA, IPAMapped>>, <<NameExampleCom, IPA>>, <<IPA, IPA>>, <<IPA, NotAnIP>> }

InitImport ==
    /\ ipInfos = {}
    /\ ipPorts = {}
    /\ req = [r \in Requests |-> IdleRequest]
    /\ \E hosts \in ImportHostLists : scan = [IdleScan EXCEPT !.hosts = hosts]
    /\ naabuImport = IdleImport
    /\ sessions = {}
    /\ statsResp = NoResponse
    /\ ExtraIdle
    /\ results = <<>>
    /\ domainStats = NoStats
    /\ ipStats = NoStats

NextImport ==
    \/ runShodanScan
    \/ ScanCheckExisting
    \/ ScanPortCheck
    \/ ScanPortCreate
    \/ ScanSave
    \/ parseAndSaveResults
    \/ ImportPortCheck
    \/ ImportPortCreate

SpecImport == InitImport /\ [][NextImport]_vars

\* the store, the aggregates and the handlers before anything has run
StoreIdle ==
    /\ ipInfos = {}
    /\ ipPorts = {}
    /\ req = [r \in Requests |-> IdleRequest]
    /\ scan = IdleScan
    /\ naabuImport = IdleImport
    /\ sessions = {}
    /\ statsResp = NoResponse
    /\ results = <<>>
    /\ domainStats = NoStats
    /\ ipStats = NoStats

(***************************************************************************)
(* The list codec alone.                                                   *)
(***************************************************************************)
InitCodec == StoreIdle /\ ExtraIdle

SpecCodec == InitCodec /\ [][NextCodec]_vars

(***************************************************************************)
(* The workflow of `scan run` alone.                                       *)
(***************************************************************************)
InitWorkflow == StoreIdle /\ ExtraIdle

SpecWorkflow == InitWorkflow /\ [][NextWorkflow]_vars

(***************************************************************************)
(* The registry config file alone.                                         *)
(***************************************************************************)
InitRegistry == StoreIdle /\ ExtraIdle

SpecRegistry == InitRegistry /\ [][NextRegistry]_vars

(***************************************************************************)
(* The web server's password authentication alone.                         *)
(***************************************************************************)
InitWeb == StoreIdle /\ ExtraIdle

SpecWeb == InitWeb /\ [][NextWeb]_vars

(***************************************************************************)
(* Claims about the resolver.                                              *)
(***************************************************************************)
\* r2 is a request for a valid address that ran after request r1 for the same
\* address had answered, r1 got a geolocation reply, and no other resolution
\* (another request for the address, the scan) has started
TwoCallsInSequence(r1, r2) ==
    /\ r1 # r2
    /\ r1 \in req[r2].after
    /\ req[r2].pc = "done"
    /\ req[r1].ip = req[r2].ip
    /\ isValidIPAddress(req[r1].ip)
    /\ req[r1].ipApiData # NilIPAPI
    /\ scan.pc = "idle"
    /\ \A o \in Requests \ {r1, r2} : req[o].pc = "idle"

SecondCallIsNoOp(r2) ==
    /\ Cardinality(RowsFor(ipInfos, req[r2].ip)) = 1
    /\ req[r2].geoCalls = 0
    /\ req[r2].probeCalls = 0
    /\ req[r2].writes = 0

\* C1 as stated: for every successful geolocation reply, two IPInfoHandler calls
\* in sequence for a valid address with no stored record leave exactly one
\* record, and the second call makes no provider call and no store write
C1_Original ==
    \A r1, r2 \in Requests : TwoCallsInSequence(r1, r2) => SecondCallIsNoOp(r2)

\* C1 amended: the same, for every successful geolocation reply in which at
\* least one of organization, ISP and country is non-empty
C1_SecondCallNoOp ==
    \A r1, r2 \in Requests :
        (TwoCallsInSequence(r1, r2) /\ ~(req[r1].ipApiData.Org = "" /\ req[r1].ipApiData.ISP = ""
                                          /\ req[r1].ipApiData.Country = ""))
            => SecondCallIsNoOp(r2)

C1_Witness ==
    \E r1, r2 \in Requests :
        /\ TwoCallsInSequence(r1, r2)
        /\ req[r1].ipApiData.Org # ""
        /\ req[r1].writes = 1
        /\ req[r2].hasShodanInfo

AtMostOneIPInfoPerAddress ==
    \A row \in ipInfos : Cardinality(RowsFor(ipInfos, row.IPAddress)) = 1

\* C2: under every interleaving of requests and the scan the store holds at most
\* one IPInfo record per address, and a record, once stored, is never changed
C2_AtMostOnce ==
    /\ []AtMostOneIPInfoPerAddress
    /\ [][\A row \in ipInfos : row \in ipInfos']_vars

\* two resolutions passed the existence check and the later insert was rejected
C2_Witness ==
    /\ \E r \in Requests : req[r].createFailed
    /\ Cardinality(RowsFor(ipInfos, IPA)) = 1

\* C3: a resolution whose insert fails on the duplicate key treats it as
\* success: storeFallbackIPData reports no error and the response carries the
\* record the winner wrote
C3_LoserTreatedAsSuccess ==
    \A r \in Requests :
        req[r].createFailed =>
            /\ ~req[r].storeErr
            /\ req[r].pc = "done" => req[r].hasShodanInfo

InvalidIPNoCalls ==
    \A r \in Requests :
        req[r].ip = NotAnIP =>
            /\ req[r].geoCalls = 0 /\ req[r].probeCalls = 0 /\ req[r].writes = 0
            /\ RowsFor(ipInfos, NotAnIP) = {}
            /\ req[r].pc = "done" => ~req[r].hasShodanInfo

\* C12: a request for a string that is not an IP address ("not-an-ip") calls
\* neither geolocation nor the probe, stores no record, and its lookup step
\* ends the request with a response without shodan_info
C12_InvalidIPSkipped ==
    /\ []InvalidIPNoCalls
    /\ [][\A r \in Requests :
            (req[r].pc = "lookup" /\ req[r].ip = NotAnIP /\ req'[r] # req[r])
                => req'[r].pc = "done" /\ ipInfos' = ipInfos /\ ipPorts' = ipPorts]_vars

\* a request for "not-an-ip" found no record, needed the fallback and answered
C12_Witness ==
    \E r \in Requests :
        req[r].ip = NotAnIP /\ req[r].pc = "done" /\ req[r].needsFallback

\* the ports a response carries: the open ports and the ports of shodan_info
ResponsePorts(rec) ==
    rec.openPorts
    \cup (IF rec.hasShodanInfo
          THEN {GetPorts(rec.shodanInfo.Ports)[i] : i \in 1..Len(GetPorts(rec.shodanInfo.Ports))}
          ELSE {})

\* C13: when geolocation failed in a fallback, the handler stores no record
\* and answers with the port data gathered, the ports its probe found in this
\* request included, and with no organizational metadata
C13_ProbePortsInResponse ==
    [][\A r \in Requests :
         (req[r].pc = "respond" /\ req'[r].pc = "done")
             => /\ ipInfos' = ipInfos
                /\ \A i \in 1..Len(req[r].ports) : req[r].ports[i] \in ResponsePorts(req'[r])
                /\ req'[r].hasShodanInfo => IsBlank(req'[r].shodanInfo)]_vars

\* C19: when the store holds a record of the address with organization, ISP
\* or country non-empty, the lookup step of a request ends it: no geolocation
\* call, no probe, no write, and shodan_info is the stored record
C19_CachedRecord ==
    [][\A r \in Requests :
         (/\ req[r].pc = "lookup" /\ req'[r] # req[r]
          /\ \E row \in RowsFor(ipInfos, req[r].ip) : ~IsBlank(row))
             => /\ req'[r].pc = "done"
                /\ req'[r].geoCalls = 0 /\ req'[r].probeCalls = 0 /\ req'[r].writes = 0
                /\ ipInfos' = ipInfos /\ ipPorts' = ipPorts
                /\ req'[r].hasShodanInfo
                /\ req'[r].shodanInfo \in RowsFor(ipInfos, req[r].ip)]_vars

\* a request answered from a stored record that is not blank
C19_Witness ==
    \E r \in Requests :
        /\ req[r].pc = "done" /\ ~req[r].needsFallback
        /\ req[r].hasShodanInfo /\ ~IsBlank(req[r].shodanInfo)
        /\ req[r].geoCalls = 0

\* C20: in a fallback the probe is called only if the store holds no port
\* record of the address at that moment, whether geolocation succeeded or not
C20_ProbeOnlyWithoutPorts ==
    [][\A r \in Requests :
         (req[r].pc = "ports" /\ req'[r].probeCalls > req[r].probeCalls)
             => {q \in ipPorts : q.IPAddress = req[r].ip} = {}]_vars

\* a fallback in which geolocation failed went past the probe without calling
\* it, the store holding a port record of the address
C20_Witness ==
    \E r \in Requests :
        /\ req[r].pc = "respond" /\ req[r].geoCalls = 1 /\ req[r].probeCalls = 0
        /\ {q \in ipPorts : q.IPAddress = req[r].ip} # {}

(***************************************************************************)
(* The aggregators (SpecAgg).                                              *)
(***************************************************************************)
\* the elements of a list
Range(list) == {list[i] : i \in 1..Len(list)}

\* the groups of a response
ApexGroups == IF domainStats.computed THEN Range(domainStats.ApexDomains) ELSE {}

IPGroups == IF ipStats.computed THEN Range(ipStats.IPList) ELSE {}

\* C4: in every apex group calculateDomainStatistics produces, count equals
\* the number of entries of the group's subdomains list, the observations of
\* the apex itself included
C4_CountIsLen ==
    \A apex \in ApexGroups : apex.Count = Len(apex.Subdomains)

\* a group that holds an observation of the apex itself and one of a subdomain
C4_Witness ==
    \E apex \in ApexGroups :
        /\ apex.Count >= 2
        /\ \E e \in Range(apex.Subdomains) : e.Domain = apex.Domain
        /\ \E e \in Range(apex.Subdomains) : e.Domain # apex.Domain

\* the position in the table of the first row folded into an apex group
FirstRowOfApex(domain) ==
    CHOOSE i \in 1..Len(results) :
        /\ ~DomainSkipped(results[i]) /\ ApexDomains[results[i].URL] = domain
        /\ \A k \in 1..(i - 1) :
             DomainSkipped(results[k]) \/ ApexDomains[results[k].URL] # domain

\* the position in the table of the first row folded into an IP group
FirstRowOfIP(ip) ==
    CHOOSE i \in 1..Len(results) :
        /\ ~IPSkipped(results[i]) /\ results[i].IPAddress = ip
        /\ \A k \in 1..(i - 1) : IPSkipped(results[k]) \/ results[k].IPAddress # ip

\* C5: in the output of both aggregators, two groups with equal count appear
\* in the order in which their first rows were read
C5_TiesKeepInsertionOrder ==
    /\ domainStats.computed =>
         \A i, j \in 1..Len(domainStats.ApexDomains) :
             (i < j /\ domainStats.ApexDomains[i].Count = domainStats.ApexDomains[j].Count)
                 => FirstRowOfApex(domainStats.ApexDomains[i].Domain)
                        < FirstRowOfApex(domainStats.ApexDomains[j].Domain)
    /\ ipStats.computed =>
         \A i, j \in 1..Len(ipStats.IPList) :
             (i < j /\ ipStats.IPList[i].DomainCount = ipStats.IPList[j].DomainCount)
                 => FirstRowOfIP(ipStats.IPList[i].IPAddress)
                        < FirstRowOfIP(ipStats.IPList[j].IPAddress)

\* C6: calculateDomainStatistics run again on the same stored rows yields the
\* result of the run before it: the same groups, counts and order
C6_RerunIdentical ==
    [][(domainStats.computed /\ results' = results) => domainStats' = domainStats]_vars

\* a row whose URL fails to parse or has an empty hostname
Malformed(result) ==
    \/ ParsedURLs[result.URL].err
    \/ Hostname(ParsedURLs[result.URL]) = <<>>

WithoutMalformed(rows) == SelectSeq(rows, LAMBDA result : ~Malformed(result))

\* every row of the list folded, none skipped
RECURSIVE AllFoldedDomain(_, _, _)
AllFoldedDomain(rows, i, m) ==
    IF i > Len(rows) THEN m ELSE AllFoldedDomain(rows, i + 1, FoldDomain(m, rows[i]))

RECURSIVE AllFoldedIP(_, _, _)
AllFoldedIP(rows, i, m) ==
    IF i > Len(rows) THEN m ELSE AllFoldedIP(rows, i + 1, FoldIP(m, rows[i]))

MalformedIDs == {results[i].ID : i \in {k \in 1..Len(results) : Malformed(results[k])}}

\* C7: a row whose URL fails to parse or has an empty hostname is in no apex
\* group and in no IP group, and the groups are those of the table without
\* such rows (a pass fails only when its query fails, never on a row)
C7_MalformedSkipped ==
    /\ domainStats.computed =>
         \A m \in {AllFoldedDomain(WithoutMalformed(results), 1, EmptyMap)} :
             /\ ApexGroups = {m[k] : k \in DOMAIN m}
             /\ Len(domainStats.ApexDomains) = Cardinality(DOMAIN m)
             /\ \A apex \in ApexGroups : \A e \in Range(apex.Subdomains) :
                    e.ResultID \notin MalformedIDs
    /\ ipStats.computed =>
         \A m \in {AllFoldedIP(WithoutMalformed(RowsWithIP(results)), 1, EmptyMap)} :
             /\ IPGroups = {m[k] : k \in DOMAIN m}
             /\ Len(ipStats.IPList) = Cardinality(DOMAIN m)
             /\ \A ipEntry \in IPGroups : \A e \in Range(ipEntry.Domains) :
                    e.ResultID \notin MalformedIDs

\* both passes ran over a table that holds the unparseable URL, the URL with
\* an empty hostname and a well-formed row
C7_Witness ==
    /\ domainStats.computed /\ ipStats.computed
    /\ \E i, j \in 1..Len(results) :
         /\ results[i].URL = URLMalformed /\ results[i].IPAddress # EmptyString
         /\ results[j].URL = URLNoScheme /\ results[j].IPAddress # EmptyString
    /\ ApexGroups # {} /\ IPGroups # {}

\* the hosts named by the claim
HostWwwExampleCoUk == <<"www", ".", "example", ".", "co", ".", "uk">>
HostExampleCoUk == <<"example", ".", "co", ".", "uk">>
HostSubExampleCom == <<"sub", ".", "example", ".", "com">>
HostExampleCom == <<"example", ".", "com">>
HostLocalhost == <<"localhost">>

\* the last two dot-separated labels of a host of two labels or more, else
\* the host
LastTwoLabels(host) ==
    IF Len(host) >= 3 THEN SubSeq(host, Len(host) - 2, Len(host)) ELSE host

\* C8: extractApexDomain gives example.co.uk for www.example.co.uk and
\* example.co.uk, example.com for sub.example.com and example.com, localhost
\* for localhost; when the public suffix lookup fails it gives the last two
\* labels of a hostname of two labels or more, else the hostname
C8_ApexOfHost ==
    \A apex \in ApexGroups : \A e \in Range(apex.Subdomains) :
        /\ e.Domain = HostWwwExampleCoUk => apex.Domain = HostExampleCoUk
        /\ e.Domain = HostExampleCoUk => apex.Domain = HostExampleCoUk
        /\ e.Domain = HostSubExampleCom => apex.Domain = HostExampleCom
        /\ e.Domain = HostExampleCom => apex.Domain = HostExampleCom
        /\ e.Domain = HostLocalhost => apex.Domain = HostLocalhost
        /\ EffectiveTLDPlusOne(e.Domain).err => apex.Domain = LastTwoLabels(e.Domain)

\* www.example.co.uk and example.co.uk share a group, next to a host for
\* which the lookup fails
C8_Witness ==
    /\ \E apex \in ApexGroups :
         /\ apex.Domain = HostExampleCoUk
         /\ {HostWwwExampleCoUk, HostExampleCoUk}
                \subseteq {e.Domain : e \in Range(apex.Subdomains)}
    /\ \E apex \in ApexGroups : \E e \in Range(apex.Subdomains) :
         EffectiveTLDPlusOne(e.Domain).err

\* the hosts that are IPv4 literals
IPLiteralHosts == {Hostname(ParsedURLs[URLTen]), Hostname(ParsedURLs[URLPrivate])}

\* C9: for a host that is an IPv4 literal extractApexDomain returns the host
\* unchanged, so no apex group holds two different IP-literal hosts
C9_IPLiteralUnchanged ==
    \A apex \in ApexGroups :
        /\ \A e \in Range(apex.Subdomains) :
             e.Domain \in IPLiteralHosts => apex.Domain = e.Domain
        /\ \A e1, e2 \in Range(apex.Subdomains) :
             (e1.Domain \in IPLiteralHosts /\ e2.Domain \in IPLiteralHosts)
                 => e1.Domain = e2.Domain

\* the formatted times of the rows folded into the group of an address
SeenTimes(ip) ==
    {FormatTime(results[k].ProbedAt) :
        k \in {i \in 1..Len(results) : results[i].IPAddress = ip /\ ~Malformed(results[i])}}

\* "2024-01-01 09:00:00", "2024-01-02 10:00:00" and "2024-01-03 11:00:00"
TextTimeA == <<50, 48, 50, 52, 45, 48, 49, 45, 48, 49, 32, 48, 57, 58, 48, 48, 58, 48, 48>>
TextTimeB == <<50, 48, 50, 52, 45, 48, 49, 45, 48, 50, 32, 49, 48, 58, 48, 48, 58, 48, 48>>
TextTimeC == <<50, 48, 50, 52, 45, 48, 49, 45, 48, 51, 32, 49, 49, 58, 48, 48, 58, 48, 48>>

\* C10: in every IP group first_seen is the least and last_seen the greatest
\* of the formatted times of the rows folded into it, whatever their order, so
\* first_seen <= last_seen; the times 2024-01-02 10:00:00, 2024-01-01 09:00:00
\* and 2024-01-03 11:00:00 give 2024-01-01 09:00:00 and 2024-01-03 11:00:00
C10_SeenWindow ==
    \A ipEntry \in IPGroups : \A times \in {SeenTimes(ipEntry.IPAddress)} :
        /\ ipEntry.FirstSeen \in times
        /\ ipEntry.LastSeen \in times
        /\ \A t \in times : ~StrLess(t, ipEntry.FirstSeen) /\ ~StrLess(ipEntry.LastSeen, t)
        /\ ~StrLess(ipEntry.LastSeen, ipEntry.FirstSeen)
        /\ times = {TextTimeA, TextTimeB, TextTimeC}
               => ipEntry.FirstSeen = TextTimeA /\ ipEntry.LastSeen = TextTimeC

\* the group of an address seen at the second, the first and the third time,
\* in that order
C10_Witness ==
    /\ Len(results) = 3
    /\ \A i \in 1..3 : results[i].IPAddress = IPA /\ ~Malformed(results[i])
    /\ <<results[1].ProbedAt, results[2].ProbedAt, results[3].ProbedAt>>
           = <<TimeB, TimeA, TimeC>>
    /\ \E ipEntry \in IPGroups :
         /\ ipEntry.IPAddress = IPA
         /\ ipEntry.FirstSeen = TextTimeA
         /\ ipEntry.LastSeen = TextTimeC

\* the entries of both responses
AllEntries ==
    UNION {Range(apex.Subdomains) : apex \in ApexGroups}
    \cup UNION {Range(ipEntry.Domains) : ipEntry \in IPGroups}

\* the port written in a URL of the model (none has a path): the digits after
\* a last ":"
ExplicitPort(u) ==
    IF Len(u) >= 2 /\ u[Len(u) - 1] = ":" /\ u[Len(u)] \in DigitWords
    THEN <<u[Len(u)]>> ELSE <<>>

\* C11: in both aggregators the port of an entry is the explicit port of its
\* URL if it has one, else "80" for http, "443" for https and "unknown" for
\* any other scheme
C11_PortPolicy ==
    \A e \in AllEntries :
        /\ ExplicitPort(e.URL) # <<>> => e.Port = ExplicitPort(e.URL)
        /\ (ExplicitPort(e.URL) = <<>> /\ e.URL[1] = "http") => e.Port = <<"80">>
        /\ (ExplicitPort(e.URL) = <<>> /\ e.URL[1] = "https") => e.Port = <<"443">>
        /\ (ExplicitPort(e.URL) = <<>> /\ e.URL[1] \notin {"http", "https"})
               => e.Port = <<"unknown">>

\* entries with an explicit port, of an https URL and of an ftp URL, the last
\* one also in an IP group
C11_Witness ==
    /\ {<<"8443">>, <<"443">>, <<"unknown">>}
           \subseteq {e.Port : e \in UNION {Range(apex.Subdomains) : apex \in ApexGroups}}
    /\ \E ipEntry \in IPGroups : \E e \in Range(ipEntry.Domains) : e.Port = <<"unknown">>


(***************************************************************************)
(* The importers of port records (SpecImport).                             *)
(***************************************************************************)
\* C14: after any sequence or interleaving of port-discovery imports the store
\* holds at most one port record for an (address, port) pair
C14_OnePortRecordPerPair ==
    \A p \in ipPorts, q \in ipPorts :
        (p.IPAddress = q.IPAddress /\ p.Port = q.Port) => p = q

\* C17: when the run of `scan shodan` has finished, every address of its list
\* has an IPInfo record in the store
C17_EveryIPHasRecord ==
    scan.pc = "done" =>
        \A i \in 1..Len(scan.ips) : RowsFor(ipInfos, scan.ips[i]) # {}

\* C18: within one run each distinct address is processed at most once and
\* Shodan is queried at most once per address: no two entries of the address
\* list, and no two Shodan queries, are for the same address
C18_OncePerAddress ==
    /\ \A i \in 1..Len(scan.ips), j \in 1..Len(scan.ips) :
           i < j => ParseIP(scan.ips[i]) # ParseIP(scan.ips[j])
    /\ \A i \in 1..Len(scan.queried), j \in 1..Len(scan.queried) :
           i < j => ParseIP(scan.queried[i]) # ParseIP(scan.queried[j])

(***************************************************************************)
(* The statistics handler (SpecStats).                                     *)
(***************************************************************************)
\* C15: a request in which a store query of the handler failed is answered
\* with an error response (status 500)
C15_FailureIsError ==
    (\E i \in 1..Len(StatsQueries) : statsResp.log = StatsQueries[i])
        => statsResp.status = 500

\* C16: a request whose queries succeed is answered successfully with the
\* counts and both aggregates, whatever the session lookup does; if the lookup
\* fails the target information is empty, and if it succeeds the target
\* information is that of a session with the latest start time
C16_TargetInfo ==
    [][(/\ statsResp' # statsResp
        /\ \A i \in 1..Len(StatsQueries) : statsResp'.log # StatsQueries[i])
       => /\ statsResp'.status = 200
          /\ statsResp'.body.written
          /\ statsResp'.body.Results = Len(results)
          /\ statsResp'.body.DomainStats.computed
          /\ statsResp'.body.IPStats.computed
          /\ (sessions = {} \/ statsResp'.log = TargetWarning)
                 => statsResp'.body.TargetInfo = NilTargetInfo
          /\ (sessions # {} /\ statsResp'.log = "")
                 => \E session \in sessions :
                      /\ \A other \in sessions :
                             ~Before(session.StartTime, other.StartTime)
                      /\ statsResp'.body.TargetInfo = TargetInformation(session)]_vars

\* the lookup failed on a store with results and no session: the response has
\* the counts and aggregates and an empty target information
C16_Witness ==
    /\ sessions = {}
    /\ statsResp.log = TargetWarning
    /\ statsResp.status = 200
    /\ statsResp.body.written
    /\ statsResp.body.Results = 2
    /\ statsResp.body.DomainStats.UniqueApexDomains = 2
    /\ statsResp.body.TargetInfo = NilTargetInfo

(***************************************************************************)
(* The aggregators (SpecAgg): order, apex observations and totals.         *)
(***************************************************************************)
\* C21: the apex_domains list is in non-increasing order of count and the
\* ip_list is in non-increasing order of domain_count
C21_SortedDescending ==
    /\ domainStats.computed =>
           \A i \in 1..Len(domainStats.ApexDomains), j \in 1..Len(domainStats.ApexDomains) :
               i < j => domainStats.ApexDomains[i].Count >= domainStats.ApexDomains[j].Count
    /\ ipStats.computed =>
           \A i \in 1..Len(ipStats.IPList), j \in 1..Len(ipStats.IPList) :
               i < j => ipStats.IPList[i].DomainCount >= ipStats.IPList[j].DomainCount

\* both lists are computed and each has groups of different sizes
C21_Witness ==
    /\ domainStats.computed
    /\ ipStats.computed
    /\ Len(domainStats.ApexDomains) >= 2
    /\ domainStats.ApexDomains[1].Count > domainStats.ApexDomains[2].Count
    /\ Len(ipStats.IPList) >= 2
    /\ ipStats.IPList[1].DomainCount > ipStats.IPList[2].DomainCount

\* the positions in the table of the folded rows whose hostname is the apex
\* domain itself
ApexObservations(domain) ==
    {i \in 1..Len(results) :
        /\ ~DomainSkipped(results[i])
        /\ ApexDomains[results[i].URL] = domain
        /\ Hostname(ParsedURLs[results[i].URL]) = domain}

\* C22: a group has is_apex true exactly if some folded row's hostname is the
\* apex domain; then its result_id is the id of the first such row of the table
\* and every such row has an entry in the subdomains list; a group without such
\* a row has no result_id
C22_ApexObservation ==
    \A apex \in ApexGroups :
        \A observed \in {ApexObservations(apex.Domain)} :
            /\ apex.IsApex <=> observed # {}
            /\ observed # {} =>
                   \E first \in observed :
                       /\ \A i \in observed : first <= i
                       /\ apex.ResultID = results[first].ID
            /\ \A i \in observed :
                   \E k \in 1..Len(apex.Subdomains) :
                       /\ apex.Subdomains[k].ResultID = results[i].ID
                       /\ apex.Subdomains[k].Domain = apex.Domain
            /\ observed = {} => apex.ResultID = 0

\* a group whose apex was observed twice, and a group whose apex was not observed
C22_Witness ==
    /\ \E apex \in ApexGroups :
           /\ Cardinality(ApexObservations(apex.Domain)) >= 2
           /\ apex.IsApex
    /\ \E apex \in ApexGroups : ~apex.IsApex /\ apex.Count >= 1

RECURSIVE SeqSum(_)
SeqSum(numbers) == IF numbers = <<>> THEN 0 ELSE Head(numbers) + SeqSum(Tail(numbers))

\* the number of rows of a list that satisfy a test
CountRows(rows, Test(_)) == Len(SelectSeq(rows, Test))

\* the entries of a group whose hostname is not the apex domain
SubdomainEntries(apex) ==
    Len(SelectSeq(apex.Subdomains, LAMBDA e : e.Domain # apex.Domain))

\* C29: total_domains is the number of rows read, which is the sum of the
\* groups' counts plus the number of skipped rows; total_results is the number
\* of rows with a non-empty address, which is the sum of the domain counts plus
\* the skipped ones among them; total_subdomains is the number of folded rows
\* whose hostname is not their apex domain, repeated hostnames counted each time
C29_Totals ==
    /\ domainStats.computed =>
         /\ domainStats.TotalDomains = Len(results)
         /\ domainStats.TotalDomains =
                SeqSum([i \in 1..Len(domainStats.ApexDomains) |-> domainStats.ApexDomains[i].Count])
                + CountRows(results, DomainSkipped)
         /\ domainStats.TotalSubdomains =
                SeqSum([i \in 1..Len(domainStats.ApexDomains) |->
                           SubdomainEntries(domainStats.ApexDomains[i])])
    /\ ipStats.computed =>
         /\ ipStats.TotalResults = CountRows(results, LAMBDA r : r.IPAddress # EmptyString)
         /\ ipStats.TotalResults =
                SeqSum([i \in 1..Len(ipStats.IPList) |-> ipStats.IPList[i].DomainCount])
                + CountRows(RowsWithIP(results), IPSkipped)

\* both totals computed on a table with a skipped row that has an address and
\* a subdomain observed twice
C29_Witness ==
    /\ domainStats.computed
    /\ ipStats.computed
    /\ CountRows(results, DomainSkipped) >= 1
    /\ CountRows(RowsWithIP(results), IPSkipped) >= 1
    /\ domainStats.TotalSubdomains = 2
    /\ \E apex \in ApexGroups :
           /\ Len(apex.Subdomains) = 2
           /\ apex.Subdomains[1].Domain = apex.Subdomains[2].Domain
           /\ apex.Subdomains[1].Domain # apex.Domain

\* the rows of the table folded into the group of an address
FoldedForIP(ip) ==
    SelectSeq(results, LAMBDA result : ~IPSkipped(result) /\ result.IPAddress = ip)

\* C30: in every IP group domain_count is the number of entries of the domains
\* list and the number of rows folded for the address, the first one included;
\* unique_ips is the number of IP groups
C30_DomainCount ==
    ipStats.computed =>
        /\ \A group \in IPGroups :
               /\ group.DomainCount = Len(group.Domains)
               /\ group.DomainCount = Len(FoldedForIP(group.IPAddress))
               /\ group.Domains[1].ResultID = group.ResultID
               /\ group.ResultID = FoldedForIP(group.IPAddress)[1].ID
        /\ ipStats.UniqueIPs = Len(ipStats.IPList)
        /\ ipStats.UniqueIPs = Cardinality({group.IPAddress : group \in IPGroups})

\* two IP groups, one of them with two rows
C30_Witness ==
    /\ ipStats.computed
    /\ ipStats.UniqueIPs = 2
    /\ \E group \in IPGroups : group.DomainCount = 2 /\ Len(group.Domains) = 2
    /\ \E group \in IPGroups : group.DomainCount = 1

(***************************************************************************)
(* The tiers of `scan shodan` (SpecImport).                                *)
(***************************************************************************)
\* the records built from a Shodan host alone, and from the fallback alone
ShodanRecords(ip) ==
    {ShodanIPInfo(GetHostMinimal(ip, reply).IP, GetHostMinimal(ip, reply)) :
        reply \in {r \in ShodanReplies : ~r.err}}

FallbackRecords(ip) ==
    {FallbackIPInfo(0, ip, geo, IF naabu.err THEN <<>> ELSE naabu.ports) :
        geo \in {g \in IPAPIReplies : g.Status # "fail"}, naabu \in NaabuReplies}

\* the record of the iteration, and every record the run has saved, comes from
\* one source only
OneSource ==
    /\ scan.pc \in {"portcheck", "portcreate", "save"} =>
           IF scan.shodanOK
           THEN ~scan.usedFallback /\ scan.ipInfo \in ShodanRecords(scan.ips[scan.idx])
           ELSE scan.usedFallback /\ scan.ipInfo \in FallbackRecords(scan.ips[scan.idx])
    /\ \A row \in ipInfos :
           \E i \in 1..Len(scan.ips) :
               [row EXCEPT !.ID = 0] \in
                   ShodanRecords(scan.ips[i]) \cup FallbackRecords(scan.ips[i])

\* C23: for each address the run processes, Shodan is queried if and only if
\* a client exists, the fallback is invoked only if there is no client or the
\* query failed, and the record saved comes from exactly one of the two sources
C23_ShodanFirst ==
    /\ []OneSource
    /\ [][(/\ scan.pc = "loop"
           /\ scan.idx <= Len(scan.ips)
           /\ RowsFor(ipInfos, scan.ips[scan.idx]) = {}
           /\ scan' # scan)
          => /\ scan.client => scan'.queried = Append(scan.queried, scan.ips[scan.idx])
             /\ ~scan.client => scan'.queried = scan.queried
             /\ scan'.fallbacks # scan.fallbacks =>
                    /\ scan'.fallbacks = Append(scan.fallbacks, scan.ips[scan.idx])
                    /\ ~scan.client \/ ~scan'.shodanOK
             /\ scan'.shodanOK => scan.client /\ scan'.fallbacks = scan.fallbacks]_vars

\* a client exists, its query for the address failed, and the record about to
\* be saved is the fallback's
C23_Witness ==
    /\ scan.pc = "save"
    /\ scan.client
    /\ scan.usedFallback
    /\ scan.queried = <<scan.ips[scan.idx]>>
    /\ scan.fallbacks = <<scan.ips[scan.idx]>>
    /\ scan.ipInfo \in FallbackRecords(scan.ips[scan.idx])

(***************************************************************************)
(* A stored record with blank organization, ISP and country (Spec).        *)
(***************************************************************************)
\* the stored records of an address whose three fields are all empty
BlankRows(ip) ==
    {row \in ipInfos :
        /\ row.IPAddress = ip
        /\ row.Organization = "" /\ row.ISP = "" /\ row.Country = ""}

\* C27: a request that finds a blank record for its (valid) address calls the
\* geolocation provider again, and no step changes or removes a blank record,
\* so every later request for the address calls the provider too
C27_BlankRecordRefetched ==
    [][/\ \A r \in Requests :
              (/\ req[r].pc = "lookup"
               /\ req[r].ip = IPA
               /\ BlankRows(IPA) # {}
               /\ req'[r] # req[r])
              => /\ req'[r].geoCalls = req[r].geoCalls + 1
                 /\ req'[r].pc = "ports"
       /\ \A row \in BlankRows(IPA) :
              /\ row \in ipInfos'
              /\ RowsFor(ipInfos', IPA) = {row}]_vars

\* a request that arrived after the blank record was stored has called the
\* provider and answered without a write, and the record is still blank
C27_Witness ==
    \E r \in Requests :
        /\ req[r].pc = "done"
        /\ req[r].ip = IPA
        /\ req[r].needsFallback
        /\ req[r].geoCalls = 1
        /\ req[r].writes = 0
        /\ \E o \in req[r].after : req[o].writes = 1
        /\ BlankRows(IPA) # {}

EventAt(kind, name) == {i \in 1..Len(workflow.events) : workflow.events[i] = <<kind, name>>}

\* C24: the screenshot phase starts only after the Shodan phase completed
\* or was skipped, a phase flagged skip is never started and its command never
\* run, nothing starts after a phase failed, and the workflow that saw a
\* phase fail returns an error
C24_PhasesInSequence ==
    /\ \A i \in EventAt("started", "Screenshot Collection") :
          \/ \E j \in EventAt("completed", "Shodan Intelligence") : j < i
          \/ /\ workflow.options.SkipShodan
             /\ EventAt("started", "Shodan Intelligence") = {}
    /\ \A i \in EventAt("started", "Shodan Intelligence") :
          \A j \in EventAt("started", "Screenshot Collection") : i < j
    /\ \A k \in 1..Len(Phases(workflow.options)) :
          Phases(workflow.options)[k].Skip =>
             /\ EventAt("started", Phases(workflow.options)[k].Name) = {}
             /\ \A c \in 1..Len(workflow.commands) :
                   workflow.commands[c].sub #
                      CommandArgs(workflow.options, Phases(workflow.options)[k]).sub
    /\ \A k \in 1..Len(Phases(workflow.options)) :
          \A i \in EventAt("failed", Phases(workflow.options)[k].Name) :
             /\ i = Len(workflow.events)
             /\ workflow.returned
             /\ workflow.err # NoError
    /\ \A k \in 1..Len(Phases(workflow.options)) :
          Cardinality(EventAt("started", Phases(workflow.options)[k].Name)) <= 1

\* both cases: the screenshot phase started after the Shodan phase completed,
\* and the workflow ended
C24_Witness ==
    /\ workflow.pc = "done"
    /\ workflow.events = << <<"started", "Shodan Intelligence">>,
                            <<"completed", "Shodan Intelligence">>,
                            <<"started", "Screenshot Collection">>,
                            <<"failed", "Screenshot Collection">> >>
    /\ workflow.err # NoError

(***************************************************************************)
(* The registry config file (SpecRegistry).                                *)
(***************************************************************************)
\* C26: the file at configPath never holds a partial config; when a call of
\* SaveConfig has returned the file holds the complete previous config or the
\* complete new one, and a call that returned an error left the previous
\* content and no temp file
C26_AtomicReplace ==
    /\ registry.file.exists => registry.file.complete
    /\ registry.pc = "returned" =>
          /\ registry.file \in {registry.prev, Content(registry.config, TRUE)}
          /\ registry.err # NoError =>
                /\ registry.file = registry.prev
                /\ ~registry.temp.exists

(***************************************************************************)
(* Password authentication (SpecWeb).                                      *)
(***************************************************************************)
\* the request carries a gowitness_auth cookie with the digest of the password
CarriesDigest(r, Password) ==
    \E i \in 1..Len(r.cookies) : r.cookies[i] = hashPassword(Password)

\* a protected handler ran for the request
ProtectedRan(response) ==
    response.handler \in {ProtectedHandler(path) : path \in ProtectedPaths}

\* C28: with a password, a protected handler runs only for a request carrying
\* the cookie with the SHA-256 hex digest of the password, every request for
\* a protected path without it is redirected to the login page, and the cookie
\* is issued only for a POST of the configured password to the login handler;
\* without a password every request passes
C28_PasswordAuth ==
    web.request # NoRequest =>
        /\ web.Password # "" =>
              /\ ProtectedRan(web.response) => CarriesDigest(web.request, web.Password)
              /\ web.request.Path \in ProtectedPaths /\ ~CarriesDigest(web.request, web.Password) =>
                    /\ web.response.status = 307
                    /\ web.response.Location = getBasePath(web.request) \o LoginPath
                    /\ web.response.handler = ""
              /\ web.response.SetCookie # NoCookie =>
                    /\ web.request.Path = "/login"
                    /\ web.request.Method = "POST"
                    /\ web.request.password = web.Password
                    /\ web.response.SetCookie[1] = hashPassword(web.Password)
        /\ web.Password = "" =>
              /\ ProtectedRan(web.response)
              /\ web.response.status = 200

\* a request with the raw password as its cookie was redirected by a server
\* with a password
C28_Witness ==
    /\ web.Password = "secret"
    /\ web.request.Path = "/api/ping"
    /\ web.request.cookies = <<"secret">>
    /\ web.request.Prefix = <<47, 103, 119>>
    /\ web.response.status = 307

====
